---- MODULE Spec2Model ----
(***************************************************************************)
(* The Dashboard view of the security-manager frontend: the job table and  *)
(* its 3000ms poller, the 1000ms clock ticker, the cancel handler, the     *)
(* token modal with its 3000ms log poll, and the pure derivations applied  *)
(* per row at render time (getDuration) and per phase log (getInput /      *)
(* getOutput).                                                             *)
(*                                                                         *)
(* JavaScript is single threaded: every action below is one run-to-        *)
(* completion task (an effect, a timer callback, a click handler, or the   *)
(* continuation of an await).  An await splits a handler in two actions:   *)
(* the part before it issues a request, the part after it consumes the     *)
(* response of that request.                                               *)
(***************************************************************************)
EXTENDS Integers, Sequences, FiniteSets

VARIABLES
    scans,          \* useState<ScanResult[]>([])
    loading,        \* useState(true)
    error,          \* useState<string | null>(null)
    selectedScanId, \* useState<number | null>(null)
    scanLogs,       \* useState<ScanLog[]>([])
    logsLoading,    \* useState(false)
    reportScanId,   \* useState<number | null>(null)
    currentTime,    \* useState(new Date()), as epoch milliseconds
    mounted,        \* "rendered" (effects not yet run), "mounted", "unmounted"
    clock,          \* the wall clock, epoch milliseconds
    clockTimer,     \* setInterval handle of the clock ticker: Null or Some(due)
    scanInterval,   \* setInterval handle of the job-list poll: Null or Some(due)
    requests,       \* HTTP requests in flight, in the order they were issued
    alert,          \* text of the last window.alert raised, or NULL
    logIntervals,   \* the live setInterval timers of the log poll: a set of
                    \* [due, scanId], scanId the id the callback closes over
    report,         \* ReportModal: useState<ScanReport | null>(null)
    reportLoading,  \* ReportModal: its own useState(true), named loading there
    rendered        \* ReportModal: what its last render derived and from which
                    \* report, [of, out]; Null before its first render

vars == <<scans, loading, error, selectedScanId, scanLogs, logsLoading,
          reportScanId, currentTime, mounted, clock, clockTimer, scanInterval,
          requests, alert, logIntervals, report, reportLoading, rendered>>

----------------------------------------------------------------------------
(* Bounds of the model *)

MaxTicks == 6       \* the wall clock runs for MaxTicks clock periods
MaxInflight == 2    \* requests in flight at the same time
MaxDay == 5         \* latest day of a timestamp handed to getDuration
MaxTokens == 1      \* authoritative token counts range over 0..MaxTokens

(* Program constants *)

ClockMs == 1000     \* setInterval(() => setCurrentTime(new Date()), 1000)
PollMs == 3000      \* setInterval(() => fetchScans(true), 3000)

----------------------------------------------------------------------------
(* Values *)

NULL == "null"                  \* null of a string-typed state
Null == <<>>                    \* null / undefined of any other type
Some(v) == <<v>>
IsSome(o) == o # <<>>
Val(o) == o[1]

(* Strings whose characters the code inspects are sequences of characters. *)
S_pending  == <<"p","e","n","d","i","n","g">>
S_PENDING  == <<"P","E","N","D","I","N","G">>
S_queued   == <<"q","u","e","u","e","d">>
S_Queued   == <<"Q","u","e","u","e","d">>
S_running  == <<"r","u","n","n","i","n","g">>
S_finished == <<"f","i","n","i","s","h","e","d">>
S_Finished == <<"F","i","n","i","s","h","e","d">>
S_cancelled == <<"c","a","n","c","e","l","l","e","d">>

Upper == <<"A","B","C","D","E","F","G","H","I","J","K","L","M",
           "N","O","P","Q","R","S","T","U","V","W","X","Y","Z">>
Lower == <<"a","b","c","d","e","f","g","h","i","j","k","l","m",
           "n","o","p","q","r","s","t","u","v","w","x","y","z">>

\* String.prototype.toLowerCase, character by character
toLowerCase(s) ==
    [i \in DOMAIN s |->
        IF \E k \in DOMAIN Upper : Upper[k] = s[i]
        THEN Lower[CHOOSE k \in DOMAIN Upper : Upper[k] = s[i]]
        ELSE s[i]]

(* A timestamp string "Dd HH:MM:SS.mmm" as its fields; Date.parse reads it. *)
Stamp(d, h, m, s, ms) == [day |-> d, hour |-> h, min |-> m, sec |-> s, ms |-> ms]

\* new Date(str).getTime()
DateGetTime(ts) ==
    (((ts.day * 24 + ts.hour) * 60 + ts.min) * 60 + ts.sec) * 1000 + ts.ms

\* ScanResult (api/client.ts)
ScanResult(id, status, created, ended, tokens) ==
    [id |-> id, repo |-> "repo", status |-> status, created_at |-> created,
     ended_at |-> ended, tokens_used |-> tokens]

----------------------------------------------------------------------------
(* The remote job system, seen through GET /scans: the lists it may return. *)

JobQueued   == ScanResult(1, S_queued, Stamp(0, 0, 0, 1, 0), Null, 0)
JobFinished == ScanResult(1, S_Finished, Stamp(0, 0, 0, 1, 0),
                          Some(Stamp(0, 0, 0, 3, 0)), 5)
JobPending  == ScanResult(2, S_PENDING, Stamp(0, 0, 0, 2, 0), Null, 0)

ServerLists == { <<>>, <<JobQueued, JobPending>>, <<JobFinished>> }

(* A request in flight.  state is "pending" until the server has answered,   *)
(* then "fulfilled" (with data) or "rejected"; the awaiting continuation     *)
(* runs on an answered request and removes it.                               *)
Request(op, silent, scanId) ==
    [op |-> op, silent |-> silent, scanId |-> scanId,
     state |-> "pending", data |-> <<>>]

RemoveAt(seq, i) ==
    [k \in 1..(Len(seq) - 1) |-> IF k < i THEN seq[k] ELSE seq[k + 1]]

Answered(i) == i \in DOMAIN requests /\ requests[i].state # "pending"

(* A report request in flight remembers whether the ReportModal that issued  *)
(* it is still mounted: the state of an unmounted component is gone, and     *)
(* what its promise callbacks set is dropped.                                *)
ReportRequest(scanId) ==
    [op |-> "getScanReport", silent |-> FALSE, scanId |-> Some(scanId),
     state |-> "pending", data |-> <<>>, owner |-> "mounted"]

Orphaned(reqs) ==
    [k \in DOMAIN reqs |->
        IF reqs[k].op = "getScanReport"
        THEN [reqs[k] EXCEPT !.owner = "unmounted"]
        ELSE reqs[k]]

----------------------------------------------------------------------------
(* Dashboard: fetchScans *)

\* if (!silent) setLoading(true);
LoadingAtStart(silent) == IF ~silent THEN TRUE ELSE loading

\* Faulty variant: the error of the last refresh is not cleared
ErrorAtStart_Keep(silent) == error

\* if (!silent) setError(null);
ErrorAtStart(silent) == IF ~silent THEN NULL ELSE error

\* fetchScans up to its await: the flags, then the call of getScans().
\* reqs is the list of requests the new one joins.
fetchScans(silent, reqs) ==
    /\ loading' = LoadingAtStart(silent)
    /\ error' = ErrorAtStart(silent)
    /\ requests' = Append(reqs, Request("getScans", silent, Null))

\* Faulty variant: the fetched list is merged into the table: jobs of the table
\* that the fetched list does not name are kept
ScansAfter_Merge(r) ==
    IF r.state = "fulfilled"
    THEN r.data \o SelectSeq(scans, LAMBDA j : \A k \in DOMAIN r.data : r.data[k].id # j.id)
    ELSE scans

\* Faulty variant: an answer is dropped when a job-list fetch issued after it
\* is in flight (the answers are taken in the order of the calls)
ScansAfter_InOrder(r) ==
    IF /\ r.state = "fulfilled"
       /\ ~\E i, j \in DOMAIN requests :
              i < j /\ requests[i] = r /\ requests[j].op = "getScans"
    THEN r.data
    ELSE scans

\* Faulty variant: a failed fetch clears the table
ScansAfter_ClearOnFail(r) == IF r.state = "fulfilled" THEN r.data ELSE <<>>

\* try { const data = await getScans(); setScans(data); }
ScansAfter(r) == IF r.state = "fulfilled" THEN r.data ELSE scans

\* Faulty variant: a fetch that succeeds takes the error banner down
ErrorAfter_ClearOnSuccess(r) ==
    IF r.state = "rejected" /\ ~r.silent THEN "Failed to fetch scans"
    ELSE IF r.state = "fulfilled" THEN NULL
    ELSE error

\* Faulty variant: the failure of a silent fetch is surfaced too
ErrorAfter_Loud(r) ==
    IF r.state = "rejected" THEN "Failed to fetch scans" ELSE error

\* catch (err) { if (!silent) setError('Failed to fetch scans'); }
ErrorAfter(r) ==
    IF r.state = "rejected" /\ ~r.silent THEN "Failed to fetch scans" ELSE error

\* finally { if (!silent) setLoading(false); }
LoadingAfter(r) == IF ~r.silent THEN FALSE ELSE loading

\* Faulty variant: a refresh of the table empties the log list
FetchScansSettled_ClearsLogs(i) ==
    /\ Answered(i)
    /\ requests[i].op = "getScans"
    /\ scans' = ScansAfter(requests[i])
    /\ error' = ErrorAfter(requests[i])
    /\ loading' = LoadingAfter(requests[i])
    /\ requests' = RemoveAt(requests, i)
    /\ scanLogs' = <<>>
    /\ UNCHANGED <<selectedScanId, logsLoading, reportScanId, report, reportLoading,
                   currentTime, mounted, clock, clockTimer, scanInterval, alert,
                   logIntervals,
                   rendered>>

\* fetchScans after its await, on the answer to request i
FetchScansSettled(i) ==
    /\ Answered(i)
    /\ requests[i].op = "getScans"
    /\ scans' = ScansAfter(requests[i])
    /\ error' = ErrorAfter(requests[i])
    /\ loading' = LoadingAfter(requests[i])
    /\ requests' = RemoveAt(requests, i)
    /\ UNCHANGED <<selectedScanId, scanLogs, logsLoading, reportScanId, report, reportLoading,
                   currentTime, mounted, clock, clockTimer, scanInterval, alert,
                   logIntervals,
                   rendered>>

----------------------------------------------------------------------------
(* Dashboard: effects *)

\* const interval = setInterval(() => fetchScans(true), 3000);
PollIntervalAtMount == Some(clock + PollMs)

\* const timer = setInterval(() => setCurrentTime(new Date()), 1000);
ClockTimerAtMount == Some(clock + ClockMs)

\* The effects of the first commit, in the order they are declared: the clock
\* ticker, the job-list poll (fetchScans() and its interval); the log poll
\* does nothing while selectedScanId is null.
Mount ==
    /\ mounted = "rendered"
    /\ clockTimer' = ClockTimerAtMount
    /\ fetchScans(FALSE, requests)
    /\ scanInterval' = PollIntervalAtMount
    /\ mounted' = "mounted"
    /\ UNCHANGED <<scans, selectedScanId, scanLogs, logsLoading, reportScanId, report, reportLoading,
                   currentTime, clock, alert,
                   logIntervals,
                   rendered>>

\* Faulty variant: the cleanup forgets clearInterval
PollIntervalAtUnmount_Leak == scanInterval

\* return () => clearInterval(interval);
PollIntervalAtUnmount == Null

\* return () => clearInterval(timer);
ClockTimerAtUnmount == Null

\* Faulty variant: the cleanup of the log poll effect does not clear its timer
LogIntervalsAfterCleanup_Leak == logIntervals

\* return () => clearInterval(interval);  (log poll effect: the timer of the run
\* being cleaned up is the one that closes over the selectedScanId of that run)
LogIntervalsAfterCleanup ==
    IF IsSome(selectedScanId)
    THEN { t \in logIntervals : t.scanId # Val(selectedScanId) }
    ELSE logIntervals

\* The cleanups of the effects, when the view is torn down
Unmount ==
    /\ mounted = "mounted"
    /\ clockTimer' = ClockTimerAtUnmount
    /\ scanInterval' = PollIntervalAtUnmount
    /\ logIntervals' = LogIntervalsAfterCleanup
    /\ mounted' = "unmounted"
    /\ requests' = Orphaned(requests)
    /\ UNCHANGED <<scans, loading, error, selectedScanId, scanLogs, logsLoading,
                   reportScanId, report, reportLoading, currentTime, clock,
                   alert,
                   rendered>>

Due(timer) == IsSome(timer) /\ Val(timer) <= clock

DueLog == \E t \in logIntervals : t.due <= clock

\* Faulty variant: the timer is a one-shot (setTimeout), so the poll stops
\* after its first tick
PollTick_Once ==
    /\ Due(scanInterval)
    /\ Len(requests) < MaxInflight
    /\ fetchScans(TRUE, requests)
    /\ scanInterval' = Null
    /\ UNCHANGED <<scans, selectedScanId, scanLogs, logsLoading, reportScanId, report, reportLoading,
                   currentTime, mounted, clock, clockTimer, alert,
                   logIntervals,
                   rendered>>

\* The callback of the job-list interval: () => fetchScans(true)
PollTick ==
    /\ Due(scanInterval)
    /\ Len(requests) < MaxInflight
    /\ fetchScans(TRUE, requests)
    /\ scanInterval' = Some(Val(scanInterval) + PollMs)
    /\ UNCHANGED <<scans, selectedScanId, scanLogs, logsLoading, reportScanId, report, reportLoading,
                   currentTime, mounted, clock, clockTimer, alert,
                   logIntervals,
                   rendered>>

\* The callback of the clock interval: () => setCurrentTime(new Date())
ClockTick ==
    /\ Due(clockTimer)
    /\ currentTime' = clock
    /\ clockTimer' = Some(Val(clockTimer) + ClockMs)
    /\ UNCHANGED <<scans, loading, error, selectedScanId, scanLogs, logsLoading,
                   reportScanId, report, reportLoading, mounted, clock, scanInterval, requests, alert,
                   logIntervals,
                   rendered>>

\* Time passes, up to the next moment a live timer is due.
Advance ==
    /\ mounted # "rendered"
    /\ ~Due(clockTimer) /\ ~Due(scanInterval) /\ ~DueLog
    /\ clock + ClockMs <= MaxTicks * ClockMs
    /\ clock' = clock + ClockMs
    /\ UNCHANGED <<scans, loading, error, selectedScanId, scanLogs, logsLoading,
                   reportScanId, report, reportLoading, currentTime, mounted, clockTimer, scanInterval,
                   requests, alert,
                   logIntervals,
                   rendered>>

----------------------------------------------------------------------------
(* Dashboard: user events *)

\* <button onClick={() => fetchScans()} disabled={loading}>
ClickRefresh ==
    /\ mounted = "mounted"
    /\ ~loading
    /\ Len(requests) < MaxInflight
    /\ fetchScans(FALSE, requests)
    /\ UNCHANGED <<scans, selectedScanId, scanLogs, logsLoading, reportScanId, report, reportLoading,
                   currentTime, mounted, clock, clockTimer, scanInterval, alert,
                   logIntervals,
                   rendered>>

\* scan.status.toLowerCase() === 'pending' || ... === 'queued'
\* Faulty variant: the status is compared as it is written
CancelOffered_CaseSensitive(scan) ==
    scan.status = S_pending \/ scan.status = S_queued

CancelOffered(scan) ==
    toLowerCase(scan.status) = S_pending \/ toLowerCase(scan.status) = S_queued

\* handleCancelScan up to its await: onClick={() => handleCancelScan(scan.id)}
ClickCancel(k) ==
    /\ mounted = "mounted"
    /\ k \in DOMAIN scans
    /\ CancelOffered(scans[k])
    /\ Len(requests) < MaxInflight
    /\ requests' = Append(requests, Request("cancelScan", FALSE, Some(scans[k].id)))
    /\ UNCHANGED <<scans, loading, error, selectedScanId, scanLogs, logsLoading,
                   reportScanId, report, reportLoading, currentTime, mounted, clock, clockTimer,
                   scanInterval, alert,
                   logIntervals,
                   rendered>>

\* Faulty variant: the refresh that follows a cancellation is not silent
CancelRefreshSilent_Loud == FALSE

\* fetchScans(true);
CancelRefreshSilent == TRUE

\* Faulty variant: a failed cancellation is not reported
AlertAfter_Quiet(r) == alert

\* catch (err) { ...; alert('Failed to cancel scan'); }
AlertAfter(r) == IF r.state = "rejected" THEN "Failed to cancel scan" ELSE alert

\* handleCancelScan after its await: fetchScans(true), or the alert
CancelSettled(i) ==
    /\ Answered(i)
    /\ requests[i].op = "cancelScan"
    /\ alert' = AlertAfter(requests[i])
    /\ IF requests[i].state = "fulfilled"
       THEN fetchScans(CancelRefreshSilent, RemoveAt(requests, i))
       ELSE /\ requests' = RemoveAt(requests, i)
            /\ UNCHANGED <<loading, error>>
    /\ UNCHANGED <<scans, selectedScanId, scanLogs, logsLoading, reportScanId, report, reportLoading,
                   currentTime, mounted, clock, clockTimer, scanInterval,
                   logIntervals,
                   rendered>>

----------------------------------------------------------------------------
(* The server answers request i *)

ResponsesTo(r) == IF r.op = "getScans" THEN ServerLists ELSE { <<>> }

Fulfil(i) ==
    /\ i \in DOMAIN requests
    /\ requests[i].state = "pending"
    /\ \E d \in ResponsesTo(requests[i]) :
          requests' = [requests EXCEPT ![i].state = "fulfilled", ![i].data = d]
    /\ UNCHANGED <<scans, loading, error, selectedScanId, scanLogs, logsLoading,
                   reportScanId, report, reportLoading, currentTime, mounted, clock, clockTimer,
                   scanInterval, alert,
                   logIntervals,
                   rendered>>

Reject(i) ==
    /\ i \in DOMAIN requests
    /\ requests[i].state = "pending"
    /\ requests' = [requests EXCEPT ![i].state = "rejected"]
    /\ UNCHANGED <<scans, loading, error, selectedScanId, scanLogs, logsLoading,
                   reportScanId, report, reportLoading, currentTime, mounted, clock, clockTimer,
                   scanInterval, alert,
                   logIntervals,
                   rendered>>

----------------------------------------------------------------------------
(* Dashboard: getDuration, applied to every row at render time *)

\* const isRunning = scan.status.toLowerCase() === 'pending' || ... === 'queued';
isRunning(scan) ==
    toLowerCase(scan.status) = S_pending \/ toLowerCase(scan.status) = S_queued

\* const start = new Date(scan.created_at).getTime();
durationStart(scan) == DateGetTime(scan.created_at)

\* Faulty variant: a running status is looked at before ended_at
durationEnd_RunningFirst(scan) ==
    IF isRunning(scan) THEN currentTime
    ELSE IF IsSome(scan.ended_at) THEN DateGetTime(Val(scan.ended_at))
    ELSE durationStart(scan)

\* Faulty variant: no branch for a job that is not running and has no ended_at
durationEnd_NoLegacy(scan) ==
    IF IsSome(scan.ended_at) THEN DateGetTime(Val(scan.ended_at)) ELSE currentTime

\* let end = currentTime.getTime();
\* if (scan.ended_at) { end = new Date(scan.ended_at).getTime(); }
\* else if (!isRunning) { end = start; }
durationEnd(scan) ==
    IF IsSome(scan.ended_at) THEN DateGetTime(Val(scan.ended_at))
    ELSE IF ~isRunning(scan) THEN durationStart(scan)
    ELSE currentTime

\* Faulty variant: negative seconds are not reset
durationSeconds_NoClamp(scan) ==
    (durationEnd(scan) - durationStart(scan)) \div 1000

\* let seconds = Math.floor((end - start) / 1000); if (seconds < 0) seconds = 0;
durationSeconds(scan) ==
    LET seconds == (durationEnd(scan) - durationStart(scan)) \div 1000
    IN  IF seconds < 0 THEN 0 ELSE seconds

Digits == <<"0","1","2","3","4","5","6","7","8","9">>

\* Number.prototype.toString of a non-negative integer
RECURSIVE NumToString(_)
NumToString(n) ==
    IF n < 10 THEN <<Digits[n + 1]>>
    ELSE NumToString(n \div 10) \o <<Digits[(n % 10) + 1]>>

\* String.prototype.padStart(len, ch)
RECURSIVE padStart(_, _, _)
padStart(str, len, ch) ==
    IF Len(str) >= len THEN str ELSE padStart(<<ch>> \o str, len, ch)

\* const pad = (n: number) => n.toString().padStart(2, '0');
pad(n) == padStart(NumToString(n), 2, "0")

\* const hrs = Math.floor(seconds / 3600);
durationHrs(seconds) == seconds \div 3600

\* Faulty variant: the hours are not taken out of the minutes
durationMins_NoMod(seconds) == seconds \div 60

\* const mins = Math.floor((seconds % 3600) / 60);
durationMins(seconds) == (seconds % 3600) \div 60

\* const secs = seconds % 60;
durationSecs(seconds) == seconds % 60

\* return `${pad(hrs)}:${pad(mins)}:${pad(secs)}`;
getDuration(scan) ==
    LET seconds == durationSeconds(scan)
    IN  pad(durationHrs(seconds)) \o <<":">> \o pad(durationMins(seconds))
            \o <<":">> \o pad(durationSecs(seconds))

----------------------------------------------------------------------------
(* Dashboard: the token ledger of the token modal *)

\* ScanLog (api/client.ts)
ScanLog(step, input, output, total) ==
    [step |-> step, tokens_input |-> input, tokens_output |-> output,
     tokens_total |-> total, model |-> "model", message |-> "message",
     timestamp |-> Stamp(0, 0, 0, 0, 0)]

\* const fallbacks: Record<string, { input: number; output: number }>
fallbacks ==
    [step \in {"Ecosystem Detection", "Remediation"} |->
        IF step = "Ecosystem Detection" THEN [input |-> 150, output |-> 200]
        ELSE [input |-> 400, output |-> 600]]

\* Faulty variant: the phase name is looked up without regard to letter case
\* and surrounding spaces
fallbackInput_Loose(step) ==
    IF step \in {"Ecosystem Detection", "Ecosystem Detection "} THEN 150
    ELSE IF step \in {"Remediation", "remediation"} THEN 400
    ELSE 0

\* fallbacks[log.step]?.input || 0
fallbackInput(step) == IF step \in DOMAIN fallbacks THEN fallbacks[step].input ELSE 0

\* fallbacks[log.step]?.output || 0
fallbackOutput(step) == IF step \in DOMAIN fallbacks THEN fallbacks[step].output ELSE 0

\* Faulty variant: the estimate of a known phase wins over the reported count
getInput_EstimateFirst(log) ==
    IF fallbackInput(log.step) > 0 THEN fallbackInput(log.step) ELSE log.tokens_input

\* const getInput = (log) => log.tokens_input > 0 ? log.tokens_input : (...)
getInput(log) ==
    IF log.tokens_input > 0 THEN log.tokens_input ELSE fallbackInput(log.step)

\* Faulty variant: the output is estimated only when the input is estimated too
getOutput_Coupled(log) ==
    IF log.tokens_output > 0 THEN log.tokens_output
    ELSE IF log.tokens_input > 0 THEN 0
    ELSE fallbackOutput(log.step)

\* const getOutput = (log) => log.tokens_output > 0 ? log.tokens_output : (...)
getOutput(log) ==
    IF log.tokens_output > 0 THEN log.tokens_output ELSE fallbackOutput(log.step)

\* Faulty variant: a total reported by the server is shown instead of the sum
getTotal_Reported(log) ==
    IF log.tokens_total > 0 THEN log.tokens_total ELSE getInput(log) + getOutput(log)

\* const getTotal = (log: ScanLog) => getInput(log) + getOutput(log);
getTotal(log) == getInput(log) + getOutput(log)

\* the text '\u2014' shown for an empty value
EmDash == <<"-">>

\* Number.prototype.toLocaleString of a non-negative integer (en-US grouping)
RECURSIVE toLocaleString(_)
toLocaleString(n) ==
    IF n < 1000 THEN NumToString(n)
    ELSE toLocaleString(n \div 1000) \o <<",">> \o padStart(NumToString(n % 1000), 3, "0")

\* <tr key={idx} className={getTotal(log) > 0 ? 'has-tokens' : ''}>
rowClass(log) == IF getTotal(log) > 0 THEN "has-tokens" ELSE ""

\* Faulty variant: only an estimate carries the ~ mark
inputCell_MarkEstimate(log) ==
    IF getInput(log) > 0
    THEN (IF log.tokens_input > 0 THEN <<>> ELSE <<"~">>) \o toLocaleString(getInput(log))
    ELSE EmDash

\* <td>{getInput(log) > 0 ? `~${getInput(log).toLocaleString()}` : '\u2014'}</td>
inputCell(log) ==
    IF getInput(log) > 0 THEN <<"~">> \o toLocaleString(getInput(log)) ELSE EmDash

\* <td>{getOutput(log) > 0 ? `~${getOutput(log).toLocaleString()}` : '\u2014'}</td>
outputCell(log) ==
    IF getOutput(log) > 0 THEN <<"~">> \o toLocaleString(getOutput(log)) ELSE EmDash

\* {getTotal(log) > 0 ? `~${getTotal(log).toLocaleString()}` : '\u2014'}
totalCell(log) ==
    IF getTotal(log) > 0 THEN <<"~">> \o toLocaleString(getTotal(log)) ELSE EmDash

\* one row of the token table: its class and its input, output, total cells
tokenRow(log) ==
    [class |-> rowClass(log), input |-> inputCell(log),
     output |-> outputCell(log), total |-> totalCell(log)]

\* scanLogs.reduce((s, l) => s + getInput(l), 0)
footerInput ==
    LET RECURSIVE acc(_)
        acc(k) == IF k = 0 THEN 0 ELSE acc(k - 1) + getInput(scanLogs[k])
    IN  acc(Len(scanLogs))

\* scanLogs.reduce((s, l) => s + getOutput(l), 0)
footerOutput ==
    LET RECURSIVE acc(_)
        acc(k) == IF k = 0 THEN 0 ELSE acc(k - 1) + getOutput(scanLogs[k])
    IN  acc(Len(scanLogs))

\* Faulty variant: of the logs of one step only the last one is counted
footerTotal_LastSeenWins ==
    LET RECURSIVE acc(_)
        acc(k) ==
            IF k = 0 THEN 0
            ELSE acc(k - 1)
                 + (IF \E j \in (k + 1)..Len(scanLogs) : scanLogs[j].step = scanLogs[k].step
                    THEN 0 ELSE getTotal(scanLogs[k]))
    IN  acc(Len(scanLogs))

\* scanLogs.reduce((s, l) => s + getTotal(l), 0)
footerTotal ==
    LET RECURSIVE acc(_)
        acc(k) == IF k = 0 THEN 0 ELSE acc(k - 1) + getTotal(scanLogs[k])
    IN  acc(Len(scanLogs))

\* Faulty variant: without tokens_used the figure is summed from the phase logs
tokenCell_FromLogs(scan) ==
    IF scan.tokens_used > 0 THEN toLocaleString(scan.tokens_used)
    ELSE IF footerTotal > 0 THEN <<"~">> \o toLocaleString(footerTotal)
    ELSE IF toLowerCase(scan.status) = S_finished THEN <<"~","1",",","2","0","0">>
    ELSE EmDash

\* {scan.tokens_used > 0 ? scan.tokens_used.toLocaleString()
\*    : (scan.status.toLowerCase() === 'finished' ? '~1,200' : '\u2014')}
tokenCell(scan) ==
    IF scan.tokens_used > 0 THEN toLocaleString(scan.tokens_used)
    ELSE IF toLowerCase(scan.status) = S_finished THEN <<"~","1",",","2","0","0">>
    ELSE EmDash

\* The token table is rendered when a job is selected, its logs are loaded
\* and there is at least one log.
TokenTableShown == IsSome(selectedScanId) /\ ~logsLoading /\ Len(scanLogs) > 0

----------------------------------------------------------------------------
(* Dashboard: the token modal and its log poll *)

\* the logs GET /scans/{id}/logs may return for a job
LogEco  == ScanLog("Ecosystem Detection", 0, 0, 0)
LogRem  == ScanLog("Remediation", 1, 1, 2)
LogScan == ScanLog("Code Scanning", 1, 0, 1)

ServerLogs(id) == IF id = 1 THEN { <<LogEco>>, <<LogEco, LogRem>> } ELSE { <<LogScan>> }

\* Faulty variant: the log poll is left running when the modal is closed
LogPollEffect_KeepOnNull(selected) ==
    IF selected = selectedScanId \/ ~IsSome(selected)
    THEN logIntervals
    ELSE LogIntervalsAfterCleanup \cup
         { [due |-> clock + PollMs, scanId |-> Val(selected)] }

\* useEffect(..., [selectedScanId]): when the render that follows a handler has
\* another selectedScanId, the cleanup of the last run is called and then the
\* effect runs again:  if (selectedScanId !== null) setInterval(..., 3000)
LogPollEffect(selected) ==
    IF selected = selectedScanId
    THEN logIntervals
    ELSE LogIntervalsAfterCleanup \cup
         (IF IsSome(selected)
          THEN { [due |-> clock + PollMs, scanId |-> Val(selected)] }
          ELSE {})

\* openTokenModal up to its await: onClick={() => openTokenModal(scan.id)}
OpenTokenModal(k) ==
    /\ mounted = "mounted"
    /\ k \in DOMAIN scans
    /\ Len(requests) < MaxInflight
    /\ selectedScanId' = Some(scans[k].id)
    /\ logsLoading' = TRUE
    /\ requests' = Append(requests, Request("getScanLogs", FALSE, Some(scans[k].id)))
    /\ logIntervals' = LogPollEffect(Some(scans[k].id))
    /\ UNCHANGED <<scans, loading, error, scanLogs, reportScanId, report, reportLoading, currentTime,
                   mounted, clock, clockTimer, scanInterval, alert,
                   rendered>>

\* Faulty variant: a failed first fetch keeps the list
LogsAfterOpen_Keep(r) == IF r.state = "fulfilled" THEN r.data ELSE scanLogs

\* setScanLogs(logs) / catch (err) { setScanLogs([]) }
LogsAfterOpen(r) == IF r.state = "fulfilled" THEN r.data ELSE <<>>

\* openTokenModal after its await
OpenTokenModalSettled(i) ==
    /\ Answered(i)
    /\ requests[i].op = "getScanLogs"
    /\ ~requests[i].silent
    /\ scanLogs' = LogsAfterOpen(requests[i])
    /\ logsLoading' = FALSE
    /\ requests' = RemoveAt(requests, i)
    /\ UNCHANGED <<scans, loading, error, selectedScanId, reportScanId, report, reportLoading,
                   currentTime, mounted, clock, clockTimer, scanInterval, alert,
                   logIntervals,
                   rendered>>

\* setInterval(() => silentFetchTokenLogs(selectedScanId), 3000): the callback,
\* up to the await of silentFetchTokenLogs
LogPollTick ==
    /\ Len(requests) < MaxInflight
    /\ \E t \in logIntervals :
          /\ t.due <= clock
          /\ requests' = Append(requests, Request("getScanLogs", TRUE, Some(t.scanId)))
          /\ logIntervals' = (logIntervals \ {t}) \cup {[t EXCEPT !.due = @ + PollMs]}
    /\ UNCHANGED <<scans, loading, error, selectedScanId, scanLogs, logsLoading,
                   reportScanId, report, reportLoading, currentTime, mounted, clock, clockTimer,
                   scanInterval, alert,
                   rendered>>

\* setScanLogs(logs) / catch (err) { }
LogsAfterSilent(r) == IF r.state = "fulfilled" THEN r.data ELSE scanLogs

\* silentFetchTokenLogs after its await
SilentFetchTokenLogsSettled(i) ==
    /\ Answered(i)
    /\ requests[i].op = "getScanLogs"
    /\ requests[i].silent
    /\ scanLogs' = LogsAfterSilent(requests[i])
    /\ requests' = RemoveAt(requests, i)
    /\ UNCHANGED <<scans, loading, error, selectedScanId, logsLoading,
                   reportScanId, report, reportLoading, currentTime, mounted, clock, clockTimer,
                   scanInterval, alert, logIntervals,
                   rendered>>

\* closeModal: the overlay and the close button of the modal, which is rendered
\* when selectedScanId !== null
CloseModal ==
    /\ mounted = "mounted"
    /\ IsSome(selectedScanId)
    /\ selectedScanId' = Null
    /\ scanLogs' = <<>>
    /\ logIntervals' = LogPollEffect(Null)
    /\ UNCHANGED <<scans, loading, error, logsLoading, reportScanId, report, reportLoading, currentTime,
                   mounted, clock, clockTimer, scanInterval, requests, alert,
                   rendered>>

\* The server answers request i while the jobs it lists stay as they are
LogResponsesTo(r) ==
    IF r.op = "getScanLogs" THEN ServerLogs(Val(r.scanId))
    ELSE IF r.op = "getScans" THEN { <<JobQueued, JobPending>> }
    ELSE { <<>> }

FulfilWatched(i) ==
    /\ i \in DOMAIN requests
    /\ requests[i].state = "pending"
    /\ \E d \in LogResponsesTo(requests[i]) :
          requests' = [requests EXCEPT ![i].state = "fulfilled", ![i].data = d]
    /\ UNCHANGED <<scans, loading, error, selectedScanId, scanLogs, logsLoading,
                   reportScanId, report, reportLoading, currentTime, mounted, clock, clockTimer,
                   scanInterval, alert, logIntervals,
                   rendered>>

----------------------------------------------------------------------------
(* ReportModal: the report of one job, loaded when the view is opened.       *)
(* A JavaScript object is a function from its keys; a key that is absent     *)
(* reads as undefined.                                                       *)

Has(o, key) == key \in DOMAIN o

\* the severities the switch names, as character sequences
S_CRITICAL == <<"C", "R", "I", "T", "I", "C", "A", "L">>
S_HIGH == <<"H", "I", "G", "H">>
S_MEDIUM == <<"M", "E", "D", "I", "U", "M">>
S_LOW == <<"L", "O", "W">>

\* entries of the sections of a report; severity and error are Null when the
\* entry has none
Vulnerability(id, severity) ==
    [id |-> id, path |-> "a.py", line |-> 1, msg |-> "msg",
     severity |-> severity, type |-> "sast"]

Remediation(path) ==
    [path |-> path, original_code |-> "before", fix_code |-> "after",
     test_code |-> "test", type |-> "fix"]

Verification(path, verified, err) ==
    [path |-> path, verified |-> verified, error |-> err]

\* interface ScanReport, with the envelope env under the key report
ScanReport(id, env) ==
    [id |-> id, repo |-> "repo", status |-> S_Finished,
     created_at |-> Stamp(0, 0, 0, 1, 0), report |-> env]

\* a payload that has no envelope at all
ScanReportBare(id) ==
    [id |-> id, repo |-> "repo", status |-> S_Finished,
     created_at |-> Stamp(0, 0, 0, 1, 0)]

EnvelopeNoKeys == [key \in {} |-> Null]

EnvelopeFixOnly ==
    [remediation |-> <<Remediation("a.py")>>, verification |-> <<>>]

EnvelopeFull ==
    [scanner |-> [vulnerabilities |-> <<Vulnerability("v1", Some(S_HIGH))>>,
                  detected_libraries |-> [python |-> <<"flask">>]],
     ecosystem |-> [language |-> "python", docker_image |-> "python:3",
                    dep_install_cmd |-> "pip install"],
     remediation |-> <<Remediation("a.py"), Remediation("b.py")>>,
     verification |-> <<Verification("a.py", TRUE, Null),
                        Verification("c.py", FALSE, Null)>>]

\* the reports GET /scans/{id}/report may return for a job
ServerReports(id) ==
    IF id = 1
    THEN { ScanReport(1, EnvelopeFull), ScanReport(1, EnvelopeNoKeys) }
    ELSE { ScanReport(2, EnvelopeFixOnly), ScanReportBare(2) }

\* the Report button of a row: disabled={scan.status.toLowerCase() === 'queued'}
ReportOffered(scan) == toLowerCase(scan.status) # S_queued

\* onClick={() => setReportScanId(scan.id)}, the render that follows, and the
\* load effect of the ReportModal: a ReportModal that is newly mounted starts
\* from its useState values; one that stays mounted keeps its state and runs
\* the effect again because scanId has changed
OpenReport(k) ==
    /\ mounted = "mounted"
    /\ k \in DOMAIN scans
    /\ ReportOffered(scans[k])
    /\ reportScanId # Some(scans[k].id)
    /\ Len(requests) < MaxInflight
    /\ reportScanId' = Some(scans[k].id)
    /\ report' = IF reportScanId = Null THEN Null ELSE report
    /\ reportLoading' = IF reportScanId = Null THEN TRUE ELSE reportLoading
    /\ requests' = Append(requests, ReportRequest(scans[k].id))
    /\ UNCHANGED <<scans, loading, error, selectedScanId, scanLogs, logsLoading,
                   currentTime, mounted, clock, clockTimer, scanInterval, alert,
                   logIntervals,
                   rendered>>

\* onClose={() => setReportScanId(null)}: the ReportModal is unmounted
CloseReport ==
    /\ mounted = "mounted"
    /\ IsSome(reportScanId)
    /\ reportScanId' = Null
    /\ requests' = Orphaned(requests)
    /\ UNCHANGED <<scans, loading, error, selectedScanId, scanLogs, logsLoading,
                   report, reportLoading, currentTime, mounted, clock,
                   clockTimer, scanInterval, alert, logIntervals,
                   rendered>>

\* Faulty variant: a failed fetch keeps the report that was shown
ReportAfter_KeepOnFail(r) == IF r.state = "fulfilled" THEN Some(r.data) ELSE report

\* .then((data) => setReport(data)).catch(() => setReport(null))
ReportAfter(r) == IF r.state = "fulfilled" THEN Some(r.data) ELSE Null

\* .finally(() => setLoading(false))
ReportLoadingAfter(r) == FALSE

\* the promise callbacks of the load effect
ReportSettled(i) ==
    /\ Answered(i)
    /\ requests[i].op = "getScanReport"
    /\ IF requests[i].owner = "mounted"
       THEN /\ report' = ReportAfter(requests[i])
            /\ reportLoading' = ReportLoadingAfter(requests[i])
       ELSE UNCHANGED <<report, reportLoading>>
    /\ requests' = RemoveAt(requests, i)
    /\ UNCHANGED <<scans, loading, error, selectedScanId, scanLogs, logsLoading,
                   reportScanId, currentTime, mounted, clock, clockTimer,
                   scanInterval, alert, logIntervals,
                   rendered>>

\* Faulty variant: a report with nothing verified counts as not generated
notGenerated_NeedsVerification ==
    \/ ~IsSome(report)
    \/ ~Has(Val(report), "report")
    \/ ~Has(Val(report).report, "verification")
    \/ Val(report).report.verification = <<>>

\* loading ? ... : !report || !report.report ||
\*                 Object.keys(report.report).length === 0 ? ... : ...
notGenerated ==
    \/ ~IsSome(report)
    \/ ~Has(Val(report), "report")
    \/ DOMAIN Val(report).report = {}

reportView ==
    IF reportLoading THEN "report-loading"
    ELSE IF notGenerated THEN "report-empty-state"
    ELSE "report-tabs"

----------------------------------------------------------------------------
(* ReportModal: what every render derives from the report it holds *)

\* const r = report?.report || {};
envelope ==
    IF IsSome(report) /\ Has(Val(report), "report")
    THEN Val(report).report
    ELSE EnvelopeNoKeys

\* const vulns = r.scanner?.vulnerabilities || [];
vulns ==
    IF Has(envelope, "scanner") /\ Has(envelope.scanner, "vulnerabilities")
    THEN envelope.scanner.vulnerabilities
    ELSE <<>>

\* const libs = r.scanner?.detected_libraries || {};
libs ==
    IF Has(envelope, "scanner") /\ Has(envelope.scanner, "detected_libraries")
    THEN envelope.scanner.detected_libraries
    ELSE EnvelopeNoKeys

\* const eco = r.ecosystem;
eco == IF Has(envelope, "ecosystem") THEN Some(envelope.ecosystem) ELSE Null

\* const remediations = r.remediation || [];
remediations ==
    IF Has(envelope, "remediation") THEN envelope.remediation ELSE <<>>

\* const verifications = r.verification || [];
verifications ==
    IF Has(envelope, "verification") THEN envelope.verification ELSE <<>>

\* seq.filter(v => v.verified), keeping the order of the elements
RECURSIVE filterVerified(_)
filterVerified(seq) ==
    IF Len(seq) = 0 THEN <<>>
    ELSE (IF Head(seq).verified THEN <<Head(seq)>> ELSE <<>>)
         \o filterVerified(Tail(seq))

\* Faulty variant: the entries that did not pass are counted
verifiedCount_Failed == Len(verifications) - Len(filterVerified(verifications))

\* const verifiedCount = verifications.filter(v => v.verified).length;
verifiedCount == Len(filterVerified(verifications))

\* the counts of the tabs: vulns.length, remediations.length, verifications.length
tabCounts ==
    [scanner |-> Len(vulns), remediation |-> Len(remediations),
     verification |-> Len(verifications)]

\* Faulty variant: the Verify step is completed as soon as one entry has passed
verifyStepClass_AnyPassed ==
    IF verifiedCount > 0 \/ Len(verifications) = 0 THEN "completed" ELSE "warning"

\* className={`pipeline-step ${verifiedCount === verifications.length ? 'completed' : 'warning'}`}
verifyStepClass ==
    IF verifiedCount = Len(verifications) THEN "completed" ELSE "warning"

\* Faulty variant: the Fix step is completed only when there are patches
fixStepClass_NeedsPatches ==
    IF Len(remediations) > 0 THEN "completed" ELSE "warning"

\* <div className="pipeline-step completed"> of the Fix step
fixStepClass == "completed"

\* the steps of <div className="pipeline-flow">, in the order they are written
pipelineFlow ==
    << [name |-> "Scan", class |-> "completed"],
       [name |-> "Detect", class |-> "completed"],
       [name |-> "Fix", class |-> fixStepClass],
       [name |-> "Verify", class |-> verifyStepClass] >>

\* Faulty variant: a remediation entry without a verification entry is shown
\* as failed
changeStatus_Assumed(fix) ==
    LET found == { k \in DOMAIN verifications : verifications[k].path = fix.path }
    IN  IF found = {} THEN Some("fail")
        ELSE LET k == CHOOSE k \in found : \A j \in found : k <= j
             IN  Some(IF verifications[k].verified THEN "pass" ELSE "fail")

\* const verification = verifications.find(v => v.path === fix.path);
\* {verification && <span className={`change-status ${verification.verified ? 'pass' : 'fail'}`}>}
changeStatus(fix) ==
    LET found == { k \in DOMAIN verifications : verifications[k].path = fix.path }
    IN  IF found = {} THEN Null
        ELSE LET k == CHOOSE k \in found : \A j \in found : k <= j
             IN  Some(IF verifications[k].verified THEN "pass" ELSE "fail")

\* remediations.map((fix, i) => <div className="change-card">...)
changeCards ==
    [i \in DOMAIN remediations |->
        [path |-> remediations[i].path, status |-> changeStatus(remediations[i])]]

\* verifications.map((v, i) => <div className={`verify-card ${v.verified ? 'pass' : 'fail'}`}>...)
verifyCards ==
    [i \in DOMAIN verifications |->
        [path |-> verifications[i].path,
         class |-> IF verifications[i].verified THEN "pass" ELSE "fail"]]

\* the markers of severityIcon: red, orange, yellow, green and white circle
Marker == [CRITICAL |-> "red", HIGH |-> "orange", MEDIUM |-> "yellow",
           LOW |-> "green", default |-> "white"]

\* String.prototype.toUpperCase, character by character
toUpperCase(s) ==
    [i \in DOMAIN s |->
        IF \E k \in DOMAIN Lower : Lower[k] = s[i]
        THEN Upper[CHOOSE k \in DOMAIN Lower : Lower[k] = s[i]]
        ELSE s[i]]

\* Faulty variant: the severity is compared as it is written
severityIcon_CaseSensitive(sev) ==
    IF ~IsSome(sev) THEN Marker.default
    ELSE IF Val(sev) = S_CRITICAL THEN Marker.CRITICAL
    ELSE IF Val(sev) = S_HIGH THEN Marker.HIGH
    ELSE IF Val(sev) = S_MEDIUM THEN Marker.MEDIUM
    ELSE IF Val(sev) = S_LOW THEN Marker.LOW
    ELSE Marker.default

\* switch (sev?.toUpperCase()) { case 'CRITICAL': ...; default: ... }
\* sev is Null when the entry has no severity
severityIcon(sev) ==
    IF ~IsSome(sev) THEN Marker.default
    ELSE IF toUpperCase(Val(sev)) = S_CRITICAL THEN Marker.CRITICAL
    ELSE IF toUpperCase(Val(sev)) = S_HIGH THEN Marker.HIGH
    ELSE IF toUpperCase(Val(sev)) = S_MEDIUM THEN Marker.MEDIUM
    ELSE IF toUpperCase(Val(sev)) = S_LOW THEN Marker.LOW
    ELSE Marker.default

----------------------------------------------------------------------------
(* ReportModal: parsedTests, on the text of a verification entry as the      *)
(* sequence of its characters                                                *)

\* \w of a regular expression: [A-Za-z0-9_]
WordChars ==
    { Upper[k] : k \in DOMAIN Upper } \cup { Lower[k] : k \in DOMAIN Lower }
    \cup { "0", "1", "2", "3", "4", "5", "6", "7", "8", "9", "_" }

\* \s of a regular expression, for the characters a line can hold
SpaceChars == { " ", "\t", "\r", "\f" }

\* output.split('\n')
RECURSIVE split(_)
split(output) ==
    IF \A i \in DOMAIN output : output[i] # "\n" THEN <<output>>
    ELSE LET i == CHOOSE i \in DOMAIN output :
                     /\ output[i] = "\n"
                     /\ \A j \in 1..(i - 1) : output[j] # "\n"
         IN  <<SubSeq(output, 1, i - 1)>>
             \o split(SubSeq(output, i + 1, Len(output)))

startsWith(line, prefix) ==
    Len(line) >= Len(prefix) /\ SubSeq(line, 1, Len(prefix)) = prefix

\* the number of characters of line from position from on that are in chars,
\* up to the first that is not: what a greedy \s+ or \w+ consumes
RECURSIVE run(_, _, _)
run(line, from, cs) ==
    IF from <= Len(line) /\ line[from] \in cs
    THEN 1 + run(line, from + 1, cs)
    ELSE 0

T_FAIL == <<"F", "A", "I", "L", ":">>
T_ERROR == <<"E", "R", "R", "O", "R", ":">>

\* Faulty variant: the prefix may be followed by the name at once
lineMatch_NoSpace(line) ==
    LET p == IF startsWith(line, T_FAIL) THEN Len(T_FAIL)
             ELSE IF startsWith(line, T_ERROR) THEN Len(T_ERROR) ELSE 0
        n == run(line, p + 1, SpaceChars)
        m == run(line, p + n + 1, WordChars)
    IN  IF p > 0 /\ m > 0 THEN Some(SubSeq(line, p + n + 1, p + n + m)) ELSE Null

\* line.match(/^(FAIL|ERROR):\s+(\w+)/): Some(failMatch[2]), or Null
lineMatch(line) ==
    LET p == IF startsWith(line, T_FAIL) THEN Len(T_FAIL)
             ELSE IF startsWith(line, T_ERROR) THEN Len(T_ERROR) ELSE 0
        n == run(line, p + 1, SpaceChars)
        m == run(line, p + n + 1, WordChars)
    IN  IF p > 0 /\ n > 0 /\ m > 0
        THEN Some(SubSeq(line, p + n + 1, p + n + m))
        ELSE Null

\* output.includes('OK')
includesOK(output) ==
    \E i \in 1..(Len(output) - 1) : output[i] = "O" /\ output[i + 1] = "K"

\* lines.forEach(line => { if (failMatch) tests.push({ name: failMatch[2], status: 'FAIL' }) })
RECURSIVE failures(_)
failures(lines) ==
    IF Len(lines) = 0 THEN <<>>
    ELSE (IF IsSome(lineMatch(Head(lines)))
          THEN << [name |-> Val(lineMatch(Head(lines))), status |-> "FAIL"] >>
          ELSE <<>>)
         \o failures(Tail(lines))

AllTests == [name |-> <<"A", "l", "l", " ", "T", "e", "s", "t", "s">>, status |-> "PASS", details |-> "Full suite passed"]

\* Faulty variant: the entries are collected in a list that outlives the call
parsedTests_Remembering(output) ==
    (IF rendered # Null /\ Len(rendered[1].out.tests) > 0
     THEN rendered[1].out.tests[1] ELSE <<>>)
    \o failures(split(output))

\* Faulty variant: the pass entry is added whenever the text contains OK
parsedTests_AlwaysOK(output) ==
    failures(split(output)) \o (IF includesOK(output) THEN <<AllTests>> ELSE <<>>)

\* const parsedTests = (output: string) => { ... return tests; }
parsedTests(output) ==
    LET tests == failures(split(output))
    IN  IF Len(tests) = 0 /\ includesOK(output) THEN <<AllTests>> ELSE tests

\* parsedTests(v.error || '')
errorText(v) == IF IsSome(v.error) THEN Val(v.error) ELSE <<>>

----------------------------------------------------------------------------
(* ReportModal: a render *)

\* what the function body of ReportModal derives from the report it holds
renderOut ==
    [vulns |-> vulns, libs |-> libs, eco |-> eco, tabs |-> tabCounts,
     verifiedCount |-> verifiedCount, pipeline |-> pipelineFlow,
     icons |-> [i \in DOMAIN vulns |->
                   severityIcon(IF Has(vulns[i], "severity")
                                THEN vulns[i].severity ELSE Null)],
     changes |-> changeCards, checks |-> verifyCards,
     tests |-> [i \in DOMAIN verifications |->
                   parsedTests(errorText(verifications[i]))]]

\* a render of the ReportModal, as follows every setState of it (setActiveTab,
\* setExpandedFix, setCodeView, setReport, setLoading)
Render ==
    /\ IsSome(reportScanId)
    /\ rendered' = Some([of |-> report, out |-> renderOut])
    /\ UNCHANGED <<scans, loading, error, selectedScanId, scanLogs, logsLoading,
                   reportScanId, report, reportLoading, currentTime, mounted,
                   clock, clockTimer, scanInterval, requests, alert,
                   logIntervals>>

----------------------------------------------------------------------------
(* The server, for the report view *)

\* The server answers request i while the jobs it lists stay as they are
ReportResponsesTo(r) ==
    IF r.op = "getScanReport" THEN ServerReports(Val(r.scanId))
    ELSE IF r.op = "getScans" THEN { <<JobFinished, JobPending>> }
    ELSE { <<>> }

FulfilReport(i) ==
    /\ i \in DOMAIN requests
    /\ requests[i].state = "pending"
    /\ \E d \in ReportResponsesTo(requests[i]) :
          requests' = [requests EXCEPT ![i].state = "fulfilled", ![i].data = d]
    /\ UNCHANGED <<scans, loading, error, selectedScanId, scanLogs, logsLoading,
                   reportScanId, report, reportLoading, currentTime, mounted,
                   clock, clockTimer, scanInterval, alert, logIntervals,
                   rendered>>

----------------------------------------------------------------------------
(* The Dashboard as a state machine *)

Init ==
    /\ scans = <<>>
    /\ loading = TRUE
    /\ error = NULL
    /\ selectedScanId = Null
    /\ scanLogs = <<>>
    /\ logsLoading = FALSE
    /\ reportScanId = Null
    /\ currentTime = 0
    /\ mounted = "rendered"
    /\ clock = 0
    /\ clockTimer = Null
    /\ scanInterval = Null
    /\ requests = <<>>
    /\ alert = NULL
    /\ logIntervals = {}
    /\ report = Null
    /\ reportLoading = TRUE
    /\ rendered = Null

Next ==
    \/ Mount
    \/ Unmount
    \/ PollTick
    \/ ClockTick
    \/ Advance
    \/ ClickRefresh
    \/ \E k \in 1..2 : ClickCancel(k)
    \/ \E i \in 1..MaxInflight : FetchScansSettled(i)
    \/ \E i \in 1..MaxInflight : CancelSettled(i)
    \/ \E i \in 1..MaxInflight : Fulfil(i)
    \/ \E i \in 1..MaxInflight : Reject(i)

Spec == Init /\ [][Next]_vars

\* The Dashboard with the token modal in use
NextLogs ==
    \/ Mount
    \/ Unmount
    \/ PollTick
    \/ ClockTick
    \/ LogPollTick
    \/ Advance
    \/ \E k \in 1..2 : OpenTokenModal(k)
    \/ CloseModal
    \/ \E i \in 1..MaxInflight : FetchScansSettled(i)
    \/ \E i \in 1..MaxInflight : OpenTokenModalSettled(i)
    \/ \E i \in 1..MaxInflight : SilentFetchTokenLogsSettled(i)
    \/ \E i \in 1..MaxInflight : FulfilWatched(i)
    \/ \E i \in 1..MaxInflight : Reject(i)

SpecLogs == Init /\ [][NextLogs]_vars

\* The Dashboard while job 1 is watched and jobs are cancelled: it starts where
\* the table and the logs of job 1 have been loaded right after the mount
InitCancel ==
    /\ scans = <<JobQueued, JobPending>>
    /\ loading = FALSE
    /\ error = NULL
    /\ selectedScanId = Some(1)
    /\ scanLogs = <<LogEco, LogRem>>
    /\ logsLoading = FALSE
    /\ reportScanId = Null
    /\ currentTime = 0
    /\ mounted = "mounted"
    /\ clock = 0
    /\ clockTimer = ClockTimerAtMount
    /\ scanInterval = PollIntervalAtMount
    /\ requests = <<>>
    /\ alert = NULL
    /\ logIntervals = { [due |-> clock + PollMs, scanId |-> 1] }
    /\ report = Null
    /\ reportLoading = TRUE
    /\ rendered = Null

NextCancel ==
    \/ PollTick
    \/ ClockTick
    \/ LogPollTick
    \/ Advance
    \/ \E k \in 1..2 : ClickCancel(k)
    \/ \E i \in 1..MaxInflight : CancelSettled(i)
    \/ \E i \in 1..MaxInflight : FetchScansSettled(i)
    \/ \E i \in 1..MaxInflight : SilentFetchTokenLogsSettled(i)
    \/ \E i \in 1..MaxInflight : FulfilWatched(i)
    \/ \E i \in 1..MaxInflight : Reject(i)

SpecCancel == InitCancel /\ [][NextCancel]_vars

\* The Dashboard while reports are opened: it starts where the table has been
\* loaded right after the mount
InitReport ==
    /\ scans = <<JobFinished, JobPending>>
    /\ loading = FALSE
    /\ error = NULL
    /\ selectedScanId = Null
    /\ scanLogs = <<>>
    /\ logsLoading = FALSE
    /\ reportScanId = Null
    /\ currentTime = 0
    /\ mounted = "mounted"
    /\ clock = 0
    /\ clockTimer = ClockTimerAtMount
    /\ scanInterval = PollIntervalAtMount
    /\ requests = <<>>
    /\ alert = NULL
    /\ logIntervals = {}
    /\ report = Null
    /\ reportLoading = TRUE
    /\ rendered = Null

NextReport ==
    \/ PollTick
    \/ ClockTick
    \/ Advance
    \/ Unmount
    \/ \E k \in 1..2 : OpenReport(k)
    \/ CloseReport
    \/ \E i \in 1..MaxInflight : FetchScansSettled(i)
    \/ \E i \in 1..MaxInflight : ReportSettled(i)
    \/ \E i \in 1..MaxInflight : FulfilReport(i)
    \/ \E i \in 1..MaxInflight : Reject(i)

SpecReport == InitReport /\ [][NextReport]_vars

\* The Dashboard with every handler and timer of it at work at one moment: one
\* poll period after the mount, job 1 watched since the mount and its logs
\* shown, the three timers due and their callbacks not yet run
InitOwners ==
    /\ scans = <<JobQueued, JobPending>>
    /\ loading = FALSE
    /\ error = NULL
    /\ selectedScanId = Some(1)
    /\ scanLogs = <<LogEco, LogRem>>
    /\ logsLoading = FALSE
    /\ reportScanId = Null
    /\ currentTime = PollMs - ClockMs
    /\ mounted = "mounted"
    /\ clock = PollMs
    /\ clockTimer = Some(PollMs)
    /\ scanInterval = Some(PollMs)
    /\ requests = <<>>
    /\ alert = NULL
    /\ logIntervals = { [due |-> PollMs, scanId |-> 1] }
    /\ report = Null
    /\ reportLoading = TRUE
    /\ rendered = Null

NextOwners ==
    \/ PollTick
    \/ ClockTick
    \/ LogPollTick
    \/ ClickRefresh
    \/ ClickCancel(1)
    \/ \E k \in 1..2 : OpenTokenModal(k)
    \/ CloseModal
    \/ \E i \in 1..MaxInflight : CancelSettled(i)
    \/ \E i \in 1..MaxInflight : FetchScansSettled(i)
    \/ \E i \in 1..MaxInflight : OpenTokenModalSettled(i)
    \/ \E i \in 1..MaxInflight : SilentFetchTokenLogsSettled(i)
    \/ \E i \in 1..MaxInflight : FulfilWatched(i)
    \/ \E i \in 1..MaxInflight : Reject(i)

SpecOwners == InitOwners /\ [][NextOwners]_vars

\* The Dashboard left mounted for ever, its job-list endpoint failing at will.
\* Time has no horizon here: setInterval looks at differences of time only, so
\* when the clock passes MaxTicks periods the origin of time is moved forward
\* by one poll period (the clock, the time shown and every due time alike).
AdvanceRetry ==
    /\ mounted = "mounted"
    /\ ~Due(clockTimer) /\ ~Due(scanInterval)
    /\ IF clock + ClockMs <= MaxTicks * ClockMs
       THEN /\ clock' = clock + ClockMs
            /\ UNCHANGED <<currentTime, clockTimer, scanInterval>>
       ELSE /\ clock' = clock + ClockMs - PollMs
            /\ currentTime' = currentTime - PollMs
            /\ clockTimer' = Some(Val(clockTimer) - PollMs)
            /\ scanInterval' = Some(Val(scanInterval) - PollMs)
    /\ UNCHANGED <<scans, loading, error, selectedScanId, scanLogs, logsLoading,
                   reportScanId, report, reportLoading, mounted, requests,
                   alert, logIntervals, rendered>>

NextRetry ==
    \/ Mount
    \/ PollTick
    \/ ClockTick
    \/ AdvanceRetry
    \/ \E i \in 1..MaxInflight : FetchScansSettled(i)
    \/ \E i \in 1..MaxInflight : Fulfil(i)
    \/ \E i \in 1..MaxInflight : Reject(i)

\* The event loop runs every callback that is ready (the effects of the first
\* commit, a timer that is due, the continuation of an answered request), time
\* passes, and every request is answered in the end, one way or the other.
SpecRetry ==
    /\ Init
    /\ [][NextRetry]_vars
    /\ WF_vars(Mount)
    /\ WF_vars(PollTick)
    /\ WF_vars(ClockTick)
    /\ WF_vars(AdvanceRetry)
    /\ \A i \in 1..MaxInflight :
          /\ WF_vars(FetchScansSettled(i))
          /\ WF_vars(Fulfil(i) \/ Reject(i))

----------------------------------------------------------------------------
(* The derivations of the ReportModal on their own: one report, of any shape *)
(* the server may send, rendered                                             *)

MaxChecks == 2      \* verification entries of a report
MaxLines == 2       \* lines of the text of a verification entry

Severities ==
    { Null, Some(<<>>), Some(S_CRITICAL), Some(toLowerCase(S_CRITICAL)),
      Some(S_HIGH), Some(<<"H", "i", "g", "h">>), Some(S_MEDIUM), Some(S_LOW),
      Some(toLowerCase(S_LOW)), Some(<<"I", "N", "F", "O">>) }

Libraries == [python |-> <<"flask">>]

\* the scanner section: with one finding, with none, without its list
ScannerChoices ==
    { [vulnerabilities |-> <<Vulnerability("v1", Some(S_HIGH))>>,
       detected_libraries |-> Libraries],
      [vulnerabilities |-> <<>>, detected_libraries |-> Libraries],
      [detected_libraries |-> Libraries] }

EcosystemChoices ==
    { [language |-> "python", docker_image |-> "python:3",
       dep_install_cmd |-> "pip install"] }

RemediationChoices ==
    { <<>>, <<Remediation("a.py")>>, <<Remediation("a.py"), Remediation("b.py")>> }

CheckEntries ==
    { Verification(path, verified, Null) :
        path \in {"a.py", "A.py"}, verified \in BOOLEAN }

VerificationChoices == UNION { [1..n -> CheckEntries] : n \in 0..MaxChecks }

Option(S) == {Null} \cup { Some(x) : x \in S }

\* the envelope that has the sections that were chosen, and no other key
EnvelopeOf(scanner, ecosystem, remediation, verification, err) ==
    LET choice(key) ==
            CASE key = "scanner" -> scanner
              [] key = "ecosystem" -> ecosystem
              [] key = "remediation" -> remediation
              [] key = "verification" -> verification
              [] key = "error" -> err
    IN  [key \in { k \in {"scanner", "ecosystem", "remediation",
                           "verification", "error"} : IsSome(choice(k)) }
            |-> Val(choice(key))]

SectionEnvelopes ==
    { EnvelopeOf(sc, ec, rm, vf, er) :
        sc \in Option(ScannerChoices), ec \in Option(EcosystemChoices),
        rm \in Option(RemediationChoices), vf \in Option(VerificationChoices),
        er \in Option({"failed"}) }

\* reports whose findings have two severities, written in any way
SeverityEnvelopes ==
    { [scanner |-> [vulnerabilities |-> <<Vulnerability("v1", s1), Vulnerability("v2", s2)>>,
                    detected_libraries |-> Libraries]] :
        s1 \in Severities, s2 \in {Some(S_LOW), Null} }
    \cup { [scanner |-> [vulnerabilities |-> <<[id |-> "v1", path |-> "a.py"]>>]] }

TestLines ==
    { <<"F", "A", "I", "L", ":", " ", "t", "e", "s", "t", "_", "f", "o", "o", " ", "(", "C", "a", "s", "e", ")">>,
      <<"E", "R", "R", "O", "R", ":", " ", "t", "e", "s", "t", "_", "b", "a", "r">>,
      <<"O", "K">>,
      <<>>,
      <<"F", "A", "I", "L", ":", "t", "e", "s", "t", "_", "x">>,
      <<" ", "F", "A", "I", "L", ":", " ", "t", "e", "s", "t", "_", "y">>,
      <<"F", "A", "I", "L", ":", " ", "(", "C", "a", "s", "e", ")">>,
      <<"f", "a", "i", "l", ":", " ", "t", "e", "s", "t", "_", "z">>,
      <<"F", "A", "I", "L", ":", "\t", " ", "t", "e", "s", "t", "_", "t", "1">>,
      <<"E", "R", "R", "O", "R", ":", " ", "B", "R", "O", "K", "E", "N">>,
      <<"R", "a", "n", " ", "1", " ", "t", "e", "s", "t", "\r">> }

RECURSIVE join(_)
join(lines) ==
    IF Len(lines) = 1 THEN lines[1]
    ELSE lines[1] \o <<"\n">> \o join(Tail(lines))

Texts == { join(ls) : ls \in UNION { [1..n -> TestLines] : n \in 1..MaxLines } }

\* reports with one verification entry, whose error is any of the texts
TextEnvelopes ==
    { [verification |-> <<Verification("a.py", FALSE, Some(t))>>] : t \in Texts }

DeriveReports ==
    { Null, Some(ScanReportBare(1)) }
    \cup { Some(ScanReport(1, e)) :
             e \in SectionEnvelopes \cup SeverityEnvelopes \cup TextEnvelopes }

InitDerive ==
    /\ scans = <<JobFinished, JobPending>>
    /\ loading = FALSE
    /\ error = NULL
    /\ selectedScanId = Null
    /\ scanLogs = <<>>
    /\ logsLoading = FALSE
    /\ reportScanId = Some(1)
    /\ currentTime = 0
    /\ mounted = "mounted"
    /\ clock = 0
    /\ clockTimer = ClockTimerAtMount
    /\ scanInterval = PollIntervalAtMount
    /\ requests = <<>>
    /\ alert = NULL
    /\ logIntervals = {}
    /\ report \in DeriveReports
    /\ reportLoading = FALSE
    /\ rendered = Null

NextDerive == Render

SpecDerive == InitDerive /\ [][NextDerive]_vars

----------------------------------------------------------------------------
(* getDuration on its own: one row, rendered at every reading of the clock *)

T_created == Stamp(0, 1, 0, 0, 0)

DurationStamps ==
    { T_created,
      Stamp(0, 1, 1, 5, 0),             \* T + 65s
      Stamp(0, 1, 0, 0, 500),           \* T + 0.5s
      Stamp(0, 0, 59, 59, 500),         \* T - 0.5s
      Stamp(1, 2, 0, 0, 0),             \* T + 25h
      Stamp(MaxDay, 1, 59, 59, 999) }   \* T + MaxDay days + 59:59.999

DurationStatuses ==
    { S_pending, S_PENDING, S_queued, S_Queued, S_running, S_finished,
      S_Finished, S_cancelled }

DurationJobs ==
    { ScanResult(1, st, c, e, 0) :
        st \in DurationStatuses, c \in DurationStamps,
        e \in {Null} \cup { Some(x) : x \in DurationStamps } }

DurationTimes == { DateGetTime(x) : x \in DurationStamps }

InitDuration ==
    /\ scans \in { <<j>> : j \in DurationJobs }
    /\ currentTime = DateGetTime(T_created)
    /\ clock = currentTime
    /\ loading = FALSE
    /\ error = NULL
    /\ selectedScanId = Null
    /\ scanLogs = <<>>
    /\ logsLoading = FALSE
    /\ reportScanId = Null
    /\ mounted = "mounted"
    /\ clockTimer = Null
    /\ scanInterval = Null
    /\ requests = <<>>
    /\ alert = NULL
    /\ logIntervals = {}
    /\ report = Null
    /\ reportLoading = TRUE
    /\ rendered = Null

\* setCurrentTime(new Date()), the wall clock reading t
ClockReads(t) ==
    /\ t # currentTime
    /\ currentTime' = t
    /\ clock' = t
    /\ UNCHANGED <<scans, loading, error, selectedScanId, scanLogs, logsLoading,
                   reportScanId, report, reportLoading, mounted, clockTimer, scanInterval, requests,
                   alert,
                   logIntervals,
                   rendered>>

NextDuration == \E t \in DurationTimes : ClockReads(t)

SpecDuration == InitDuration /\ [][NextDuration]_vars

----------------------------------------------------------------------------
(* The token ledger on its own: the log list of the watched job, whose      *)
(* phases report their authoritative counts one after the other             *)

MaxLogs == 2        \* phase logs of the watched job

PhaseSteps ==
    { "Ecosystem Detection", "Remediation", "Code Scanning", "remediation" }

\* the rows of the job table the token figure is shown for
TokenJobs ==
    { ScanResult(1, st, T_created, Null, t) :
        st \in {S_Finished, S_queued}, t \in {0, 1200} }

PhaseLogs ==
    { ScanLog(st, i, o, i + o) :
        st \in PhaseSteps, i \in 0..MaxTokens, o \in 0..MaxTokens }

LogLists == UNION { [1..n -> PhaseLogs] : n \in 0..MaxLogs }

InitTokens ==
    /\ scanLogs \in { l \in LogLists :
                        \A k \in DOMAIN l : l[k].tokens_input = 0 /\ l[k].tokens_output = 0 }
    /\ selectedScanId = Some(1)
    /\ logsLoading = FALSE
    /\ scans \in { <<j>> : j \in TokenJobs }
    /\ loading = FALSE
    /\ error = NULL
    /\ reportScanId = Null
    /\ currentTime = 0
    /\ clock = 0
    /\ mounted = "mounted"
    /\ clockTimer = Null
    /\ scanInterval = Null
    /\ requests = <<>>
    /\ alert = NULL
    /\ logIntervals = {}
    /\ report = Null
    /\ reportLoading = TRUE
    /\ rendered = Null

\* setScanLogs(logs), the fetched list differing from the last one in the
\* counts of phase k
LogsRefreshed(k, i, o) ==
    /\ k \in DOMAIN scanLogs
    /\ scanLogs[k].tokens_input # i \/ scanLogs[k].tokens_output # o
    /\ scanLogs' = [scanLogs EXCEPT ![k] = ScanLog(scanLogs[k].step, i, o, i + o)]
    /\ UNCHANGED <<scans, loading, error, selectedScanId, logsLoading,
                   reportScanId, report, reportLoading, currentTime, mounted, clock, clockTimer,
                   scanInterval, requests, alert,
                   logIntervals,
                   rendered>>

NextTokens ==
    \E k \in 1..MaxLogs, i \in 0..MaxTokens, o \in 0..MaxTokens :
        LogsRefreshed(k, i, o)

SpecTokens == InitTokens /\ [][NextTokens]_vars

----------------------------------------------------------------------------
(* Steps, recognised by what they do to the list of requests *)

\* the continuation of fetchScans runs on the answer to request i
ScansFetchSettles(i) ==
    /\ Answered(i)
    /\ requests[i].op = "getScans"
    /\ requests' = RemoveAt(requests, i)

\* fetchScans(silent) issues its request, from a timer, a click or an effect,
\* or from the continuation of handleCancelScan
ScansFetchIssued(silent) ==
    \/ requests' = Append(requests, Request("getScans", silent, Null))
    \/ \E i \in DOMAIN requests :
          /\ Answered(i)
          /\ requests[i].op = "cancelScan"
          /\ requests' = Append(RemoveAt(requests, i), Request("getScans", silent, Null))

----------------------------------------------------------------------------
(* Job List Poller *)

\* C1: when a job-list fetch, silent or not, succeeds, the job table
\* afterwards is exactly the fetched list: nothing of the earlier table
\* (a job the list does not name, a field of an earlier entry) survives.
C1_FetchReplacesTable ==
    [][\A i \in DOMAIN requests :
          (ScansFetchSettles(i) /\ requests[i].state = "fulfilled")
              => scans' = requests[i].data]_vars

\* The table holds the later list <<JobFinished>>: job 2 is gone and job 1
\* has the fields of the later fetch.
C1_Witness == scans = <<JobFinished>>

C3_NonSilentFlags ==
    [][/\ ScansFetchIssued(FALSE) => (loading' = TRUE /\ error' = NULL)
       /\ \A i \in DOMAIN requests :
             (ScansFetchSettles(i) /\ ~requests[i].silent)
                 => /\ loading' = FALSE
                    /\ (error' # NULL) <=> (requests[i].state = "rejected")]_vars

\* A non-silent refresh has failed and settled, on a loaded table.
C3_Witness == error = "Failed to fetch scans" /\ ~loading /\ Len(scans) > 0

\* C4: a job-list fetch that fails, silent or not, leaves the job table as
\* it was.
C4_FailureKeepsTable ==
    [][\A i \in DOMAIN requests :
          (ScansFetchSettles(i) /\ requests[i].state = "rejected")
              => scans' = scans]_vars

\* A non-silent refresh has failed and the table still holds the jobs of an
\* earlier fetch, while the failure of a silent one is about to be handled.
C4_Witness ==
    /\ Len(scans) > 0
    /\ error # NULL
    /\ \E i \in DOMAIN requests :
          requests[i].op = "getScans" /\ requests[i].state = "rejected"

\* C5: mounting issues one non-silent fetch at once and arms the interval
\* PollMs later; while the view is mounted the interval is live, a tick is
\* due at every multiple of PollMs after the mount and each tick issues exactly
\* one silent fetch; after teardown the interval is cancelled and the poller
\* issues nothing (the list of requests never grows by a new request).
C5_Poller ==
    /\ [][/\ (mounted = "rendered" /\ mounted' = "mounted")
                => /\ requests' = Append(requests, Request("getScans", FALSE, Null))
                   /\ scanInterval' = Some(clock + PollMs)
          /\ (IsSome(scanInterval) /\ IsSome(scanInterval') /\ scanInterval' # scanInterval)
                => /\ clock = Val(scanInterval)
                   /\ Val(scanInterval') = Val(scanInterval) + PollMs
                   /\ requests' = Append(requests, Request("getScans", TRUE, Null))
          /\ mounted = "unmounted" => Len(requests') <= Len(requests)]_vars
    /\ [](mounted = "mounted"
            => /\ IsSome(scanInterval)
               /\ Val(scanInterval) % PollMs = 0
               /\ clock <= Val(scanInterval)
               /\ Val(scanInterval) <= clock + PollMs)
    /\ [](mounted = "unmounted" => scanInterval = Null)

\* The view was torn down after its poller had ticked, a fetch of the poller
\* is still in flight, and time has passed the next multiple of PollMs.
C5_Witness ==
    /\ mounted = "unmounted"
    /\ clock = 2 * PollMs
    /\ \E i \in DOMAIN requests : requests[i].op = "getScans" /\ requests[i].silent

----------------------------------------------------------------------------
(* Duration Calculator *)

Zeros == <<"0","0",":","0","0",":","0","0">>

\* the elapsed milliseconds by the rule: ended_at - created_at when ended_at
\* is set, now - created_at for a pending or queued job, else 0
ElapsedRule(scan) ==
    IF IsSome(scan.ended_at)
    THEN DateGetTime(Val(scan.ended_at)) - DateGetTime(scan.created_at)
    ELSE IF toLowerCase(scan.status) \in {S_pending, S_queued}
    THEN currentTime - DateGetTime(scan.created_at)
    ELSE 0

\* C6: for a job whose ended_at is set, whatever its status, no reading of the
\* clock changes the string getDuration returns, and the elapsed time it is
\* computed from is ended_at - created_at.
C6_EndedFrozen ==
    /\ [][\A k \in DOMAIN scans :
             IsSome(scans[k].ended_at)
                 => getDuration(scans[k])' = getDuration(scans[k])]_vars
    /\ [](\A k \in DOMAIN scans :
             IsSome(scans[k].ended_at)
                 => durationEnd(scans[k]) - durationStart(scans[k])
                      = DateGetTime(Val(scans[k].ended_at))
                          - DateGetTime(scans[k].created_at))

\* A job still marked pending with ended_at 65s after created_at, read hours
\* later.
C6_Witness ==
    /\ scans[1].status = S_pending
    /\ scans[1].created_at = T_created
    /\ scans[1].ended_at = Some(Stamp(0, 1, 1, 5, 0))
    /\ currentTime = DateGetTime(Stamp(1, 2, 0, 0, 0))
    /\ getDuration(scans[1]) = <<"0","0",":","0","1",":","0","5">>

\* C7: for a job with status pending or queued in any letter case and no
\* ended_at, the elapsed seconds do not decrease when the clock reads a later
\* time, and they are never negative.
C7_RunningMonotone ==
    /\ [][\A k \in DOMAIN scans :
             (/\ toLowerCase(scans[k].status) \in {S_pending, S_queued}
              /\ ~IsSome(scans[k].ended_at)
              /\ currentTime' >= currentTime)
                 => durationSeconds(scans[k])' >= durationSeconds(scans[k])]_vars
    /\ [](\A k \in DOMAIN scans :
             (/\ toLowerCase(scans[k].status) \in {S_pending, S_queued}
              /\ ~IsSome(scans[k].ended_at))
                 => durationSeconds(scans[k]) >= 0)

\* A job with status "PENDING" created after the time the clock reads: its
\* elapsed seconds are 0.
C7_Witness ==
    /\ scans[1].status = S_PENDING
    /\ ~IsSome(scans[1].ended_at)
    /\ currentTime < DateGetTime(scans[1].created_at)
    /\ durationSeconds(scans[1]) = 0

\* C8: for a job with no ended_at whose status is neither pending nor queued
\* (in any letter case), getDuration returns 00:00:00 at every reading of the
\* clock.
C8_LegacyZero ==
    \A k \in DOMAIN scans :
        (/\ ~IsSome(scans[k].ended_at)
         /\ toLowerCase(scans[k].status) \notin {S_pending, S_queued})
            => getDuration(scans[k]) = Zeros

\* A finished job without ended_at, read 25 hours after it was created.
C8_Witness ==
    /\ scans[1].status = S_Finished
    /\ ~IsSome(scans[1].ended_at)
    /\ scans[1].created_at = T_created
    /\ currentTime = DateGetTime(Stamp(1, 2, 0, 0, 0))
    /\ getDuration(scans[1]) = Zeros

IsDigits(str) == \A k \in DOMAIN str : \E d \in DOMAIN Digits : Digits[d] = str[k]

\* the number a string of decimal digits denotes
RECURSIVE DigitsVal(_)
DigitsVal(str) ==
    IF str = <<>> THEN 0
    ELSE 10 * DigitsVal(SubSeq(str, 1, Len(str) - 1))
           + (CHOOSE d \in 0..9 : Digits[d + 1] = str[Len(str)])

\* C9: for every job and every reading of the clock, getDuration returns
\* H:MM:SS where, with s = max(0, floor(elapsed ms / 1000)), H is
\* floor(s/3600) in decimal with at least two digits (a leading 0 only to
\* reach two), MM is floor((s mod 3600)/60) < 60 and SS is s mod 60 < 60 in
\* two digits; a negative elapsed time gives 00:00:00; a pending job created
\* at T and read at T+65s gives 00:01:05.
C9_Format ==
    \A k \in DOMAIN scans :
        LET out == getDuration(scans[k])
            ms == ElapsedRule(scans[k])
            s == IF ms \div 1000 < 0 THEN 0 ELSE ms \div 1000
            n == Len(out)
            hh == SubSeq(out, 1, n - 6)
            mm == SubSeq(out, n - 4, n - 3)
            ss == SubSeq(out, n - 1, n)
        IN  /\ n >= 8
            /\ out[n - 5] = ":" /\ out[n - 2] = ":"
            /\ IsDigits(hh) /\ IsDigits(mm) /\ IsDigits(ss)
            /\ Len(hh) = 2 \/ hh[1] # "0"
            /\ DigitsVal(hh) = s \div 3600
            /\ DigitsVal(mm) = (s % 3600) \div 60 /\ DigitsVal(mm) < 60
            /\ DigitsVal(ss) = s % 60 /\ DigitsVal(ss) < 60
            /\ ms < 0 => out = Zeros
            /\ (/\ scans[k].status = S_pending
                /\ scans[k].created_at = T_created
                /\ ~IsSome(scans[k].ended_at)
                /\ currentTime = DateGetTime(T_created) + 65000)
                   => out = <<"0","0",":","0","1",":","0","5">>

\* A queued job read more than a hundred hours after it was created: the
\* hours take three digits.
C9_Witness ==
    /\ scans[1].status = S_Queued
    /\ ~IsSome(scans[1].ended_at)
    /\ currentTime > DateGetTime(scans[1].created_at)
    /\ Len(getDuration(scans[1])) = 9

----------------------------------------------------------------------------
(* Token Ledger *)

\* C10: for every phase log, the effective input is tokens_input whenever
\* tokens_input > 0 and the effective output is tokens_output whenever
\* tokens_output > 0, also for a phase that has a fallback entry.
C10_AuthoritativeWins ==
    \A k \in DOMAIN scanLogs :
        /\ scanLogs[k].tokens_input > 0
              => getInput(scanLogs[k]) = scanLogs[k].tokens_input
        /\ scanLogs[k].tokens_output > 0
              => getOutput(scanLogs[k]) = scanLogs[k].tokens_output

\* The Remediation phase has reported its input but not yet its output: the
\* input shown is the reported one, the output the estimate.
C10_Witness ==
    /\ TokenTableShown
    /\ \E k \in DOMAIN scanLogs :
          /\ scanLogs[k].step = "Remediation"
          /\ scanLogs[k].tokens_input > 0
          /\ scanLogs[k].tokens_output = 0
          /\ getInput(scanLogs[k]) = scanLogs[k].tokens_input
          /\ getOutput(scanLogs[k]) = 600

\* the sum of getTotal over the first n phase logs
RECURSIVE SumOfTotals(_)
SumOfTotals(n) ==
    IF n = 0 THEN 0 ELSE SumOfTotals(n - 1) + getTotal(scanLogs[n])

\* C11: for every phase log whose authoritative field is not greater than
\* zero, the effective value is the fixed estimate of the phase with exactly
\* that name (Ecosystem Detection: input 150, output 200; Remediation: input
\* 400, output 600) and 0 for every other name, also one that differs from
\* these only in letter case or spacing.
C11_FallbackTable ==
    \A k \in DOMAIN scanLogs :
        LET log == scanLogs[k] IN
        /\ log.tokens_input <= 0 =>
              getInput(log) = (IF log.step = "Ecosystem Detection" THEN 150
                               ELSE IF log.step = "Remediation" THEN 400 ELSE 0)
        /\ log.tokens_output <= 0 =>
              getOutput(log) = (IF log.step = "Ecosystem Detection" THEN 200
                                ELSE IF log.step = "Remediation" THEN 600 ELSE 0)

\* A log of the phase "remediation" that has reported nothing next to one of
\* "Remediation": the first shows 0, the second the estimate.
C11_Witness ==
    /\ TokenTableShown
    /\ \E k, j \in DOMAIN scanLogs :
          /\ scanLogs[k].step = "remediation"
          /\ scanLogs[k].tokens_input = 0 /\ scanLogs[k].tokens_output = 0
          /\ getInput(scanLogs[k]) = 0 /\ getOutput(scanLogs[k]) = 0
          /\ scanLogs[j].step = "Remediation"
          /\ scanLogs[j].tokens_input = 0
          /\ getInput(scanLogs[j]) = 400

\* C12: for every phase log, getTotal is getInput plus getOutput.
C12_TotalIsSum ==
    \A k \in DOMAIN scanLogs :
        getTotal(scanLogs[k]) = getInput(scanLogs[k]) + getOutput(scanLogs[k])

\* A Remediation log with a reported input and an estimated output.
C12_Witness ==
    /\ TokenTableShown
    /\ \E k \in DOMAIN scanLogs :
          /\ scanLogs[k].step = "Remediation"
          /\ scanLogs[k].tokens_input = 1
          /\ scanLogs[k].tokens_output = 0
          /\ getTotal(scanLogs[k]) = 601

\* C13: the total of the footer row is the sum of getTotal over all phase
\* logs of the list, two logs of the same step both counted, and it is the
\* footer's input plus the footer's output.
C13_FooterTotals ==
    /\ footerTotal = SumOfTotals(Len(scanLogs))
    /\ footerTotal = footerInput + footerOutput

\* Two logs of the step Remediation, one estimated and one with a reported
\* input: 1000 + 601.
C13_Witness ==
    /\ TokenTableShown
    /\ Len(scanLogs) = 2
    /\ scanLogs[1].step = "Remediation" /\ scanLogs[2].step = "Remediation"
    /\ scanLogs[1].tokens_input = 0 /\ scanLogs[1].tokens_output = 0
    /\ scanLogs[2].tokens_input = 1 /\ scanLogs[2].tokens_output = 0
    /\ footerTotal = 1601

\* C14: the token figure of a row of the job table is the job's tokens_used
\* when that is positive, else the placeholder ~1,200 when the status is
\* finished in any letter case, else the dash; the phase logs have no part in
\* it.
C14_JobTokenFigure ==
    \A k \in DOMAIN scans :
        tokenCell(scans[k]) =
            (IF scans[k].tokens_used > 0 THEN toLocaleString(scans[k].tokens_used)
             ELSE IF toLowerCase(scans[k].status) = <<"f","i","n","i","s","h","e","d">>
             THEN <<"~","1",",","2","0","0">>
             ELSE EmDash)

\* A job "Finished" without tokens_used shows the placeholder while the phase
\* logs of that job add up to something else.
C14_Witness ==
    /\ scans[1].status = S_Finished
    /\ scans[1].tokens_used = 0
    /\ tokenCell(scans[1]) = <<"~","1",",","2","0","0">>
    /\ footerTotal = 601

\* the phase logs that show the same effective input and output as log
Twins(log) ==
    { ScanLog(st, i, o, t) :
        st \in PhaseSteps, i \in {0, getInput(log)}, o \in {0, getOutput(log)},
        t \in {0, getTotal(log)} }

\* C15: the row of a phase log (its class, its input, output and total cells)
\* is the same for any two logs with equal effective input and output,
\* whether these are reported or estimated.
C15_SwitchInvisible ==
    \A k \in DOMAIN scanLogs :
        \A twin \in Twins(scanLogs[k]) :
            (/\ getInput(twin) = getInput(scanLogs[k])
             /\ getOutput(twin) = getOutput(scanLogs[k]))
                => tokenRow(twin) = tokenRow(scanLogs[k])

\* An estimated Remediation log; its twin reports 400 and 600.
C15_Witness ==
    /\ TokenTableShown
    /\ \E k \in DOMAIN scanLogs :
          /\ scanLogs[k].step = "Remediation"
          /\ scanLogs[k].tokens_input = 0 /\ scanLogs[k].tokens_output = 0
          /\ tokenRow(scanLogs[k]) = tokenRow(ScanLog("Remediation", 400, 600, 1000))
          /\ tokenRow(scanLogs[k]).input = <<"~","4","0","0">>

----------------------------------------------------------------------------
(* Steps of the log poll, recognised by what they do to the list of requests *)

\* a step that issues a log fetch: of openTokenModal (silent = FALSE) or of
\* the interval callback (silent = TRUE)
LogFetchIssued(silent) ==
    /\ Len(requests') = Len(requests) + 1
    /\ SubSeq(requests', 1, Len(requests)) = requests
    /\ requests'[Len(requests')].op = "getScanLogs"
    /\ requests'[Len(requests')].silent = silent

\* a step in which the continuation of log fetch i runs
LogFetchSettles(i, silent) ==
    /\ Answered(i)
    /\ requests[i].op = "getScanLogs"
    /\ requests[i].silent = silent
    /\ requests' = RemoveAt(requests, i)

\* C17: at every moment at most one log-polling timer is live and it polls the
\* watched job id; a periodic log fetch is only ever issued for the job id
\* watched at that moment, so none is issued for an id watched before a switch.
C17_OneLogTimer ==
    /\ [](/\ Cardinality(logIntervals) <= 1
          /\ \A t \in logIntervals : selectedScanId = Some(t.scanId))
    /\ [][LogFetchIssued(TRUE) =>
            requests'[Len(requests')].scanId = selectedScanId]_vars

\* the watched job was switched from 1 to 2 while a fetch for 1 was in flight,
\* and the poll of job 2 has issued a fetch
C17_Witness ==
    /\ selectedScanId = Some(2)
    /\ \E t \in logIntervals : t.scanId = 2
    /\ Len(requests) = 2
    /\ requests[1].op = "getScanLogs" /\ requests[1].scanId = Some(1)
    /\ requests[2].op = "getScanLogs" /\ requests[2].silent
    /\ requests[2].scanId = Some(2)

\* C16: while a job is watched, a failed first log fetch (openTokenModal)
\* empties the log list, a failed periodic log fetch (silentFetchTokenLogs)
\* leaves the log list as it is, and a successful log fetch of either kind
\* makes the fetched list the log list.
C16_LogFetchOutcome ==
    [][\A i \in 1..MaxInflight : \A silent \in BOOLEAN :
          (LogFetchSettles(i, silent) /\ IsSome(selectedScanId)) =>
             IF requests[i].state = "fulfilled"
             THEN scanLogs' = requests[i].data
             ELSE IF silent THEN scanLogs' = scanLogs
                  ELSE scanLogs' = <<>>]_vars

\* job 1 is watched, its first fetch has failed (nothing is shown, the modal is
\* not loading), and a periodic fetch has now been answered with a failure
C16_Witness ==
    /\ selectedScanId = Some(1)
    /\ ~logsLoading
    /\ scanLogs = <<>>
    /\ Len(requests) = 1
    /\ requests[1].op = "getScanLogs" /\ requests[1].silent
    /\ requests[1].state = "rejected"

\* C18: when no job is watched no log-polling timer is live, and no log fetch
\* is issued while no job is watched: the only step that issues one from such
\* a state is the step that starts watching a job.
C18_NoPollWhenClosed ==
    /\ [](selectedScanId = Null => logIntervals = {})
    /\ [][selectedScanId = Null =>
            /\ ~LogFetchIssued(TRUE)
            /\ LogFetchIssued(FALSE) => IsSome(selectedScanId')]_vars

\* the modal was closed after the log poll had issued a fetch, which is still
\* in flight; the wall clock has passed the time the poll would have come due
C18_Witness ==
    /\ mounted = "mounted"
    /\ selectedScanId = Null
    /\ logIntervals = {}
    /\ \E i \in DOMAIN requests :
          /\ requests[i].op = "getScanLogs" /\ requests[i].silent
          /\ requests[i].state = "pending"
    /\ clock >= 2 * PollMs

----------------------------------------------------------------------------
(* Cancellation Controller *)

\* a step in which the continuation of cancel request i runs: the request
\* leaves the list, and at most one request is issued after the others
CancelContinues(i) ==
    /\ Answered(i)
    /\ requests[i].op = "cancelScan"
    /\ \/ requests' = RemoveAt(requests, i)
       \/ /\ Len(requests') = Len(requests)
          /\ SubSeq(requests', 1, Len(requests) - 1) = RemoveAt(requests, i)
          /\ requests'[Len(requests')].state = "pending"

\* C19: the step that runs on the success of cancelScan issues a silent
\* job-list fetch itself, whatever the state of the poll timer, and changes
\* neither loading nor error; neither does the step in which a silent fetch
\* settles, and when it settles with success the table is the fetched list.
C19_CancelRefreshes ==
    [][/\ \A i \in DOMAIN requests :
             (CancelContinues(i) /\ requests[i].state = "fulfilled") =>
                /\ requests' = Append(RemoveAt(requests, i),
                                      Request("getScans", TRUE, Null))
                /\ loading' = loading /\ error' = error
       /\ \A i \in DOMAIN requests :
             (ScansFetchSettles(i) /\ requests[i].silent) =>
                /\ loading' = loading /\ error' = error
                /\ requests[i].state = "fulfilled" => scans' = requests[i].data
      ]_vars

\* the poll has not come due since the view was mounted, a cancellation has
\* succeeded, and the silent refresh it issued has been answered: job 1, which
\* was queued in the table, is no longer queued in the answer
C19_Witness ==
    /\ scanInterval = Some(PollMs) /\ clock < PollMs
    /\ scans = <<JobQueued, JobPending>>
    /\ Len(requests) = 1
    /\ requests[1].op = "getScans" /\ requests[1].silent
    /\ requests[1].state = "fulfilled" /\ requests[1].data = <<JobFinished>>

\* C20: the step that runs on the failure of cancelScan raises the alert,
\* issues no request, and leaves the job table, loading, error, the watched
\* job id and the log list as they are.
C20_CancelFailureAlerts ==
    [][\A i \in DOMAIN requests :
          (CancelContinues(i) /\ requests[i].state = "rejected") =>
             /\ alert' = "Failed to cancel scan"
             /\ requests' = RemoveAt(requests, i)
             /\ UNCHANGED <<scans, loading, error, selectedScanId, scanLogs>>
      ]_vars

\* a cancellation has failed while job 1 was watched with its logs shown
C20_Witness ==
    /\ alert = "Failed to cancel scan"
    /\ selectedScanId = Some(1)
    /\ scanLogs = <<LogEco, LogRem>>
    /\ scans = <<JobQueued, JobPending>>

\* two strings that differ at most in the case of their letters
EqIgnoreCase(s, t) ==
    /\ Len(s) = Len(t)
    /\ \A i \in DOMAIN s :
          \/ s[i] = t[i]
          \/ \E k \in DOMAIN Upper : {s[i], t[i]} = {Upper[k], Lower[k]}

\* a step that issues a cancel request for job id
CancelIssued(id) ==
    /\ Len(requests') = Len(requests) + 1
    /\ SubSeq(requests', 1, Len(requests)) = requests
    /\ requests'[Len(requests')].op = "cancelScan"
    /\ requests'[Len(requests')].scanId = Some(id)

\* C21: the cancel button is shown for a row of the table exactly when its
\* status is pending or queued up to the case of the letters, and a cancel
\* request is only ever issued for a job that has such a row.
C21_CancelOnlyWhenOffered ==
    /\ [](\A k \in DOMAIN scans :
            CancelOffered(scans[k]) <=>
               (\/ EqIgnoreCase(scans[k].status, S_pending)
                \/ EqIgnoreCase(scans[k].status, S_queued)))
    /\ [][\A id \in 1..2 :
            CancelIssued(id) =>
               \E k \in DOMAIN scans :
                  /\ scans[k].id = id
                  /\ \/ EqIgnoreCase(scans[k].status, S_pending)
                     \/ EqIgnoreCase(scans[k].status, S_queued)]_vars

\* the job whose status is written PENDING is being cancelled
C21_Witness ==
    /\ scans = <<JobQueued, JobPending>>
    /\ \E i \in DOMAIN requests :
          requests[i].op = "cancelScan" /\ requests[i].scanId = Some(2)

----------------------------------------------------------------------------
(* Report Loader *)

\* a step that issues a report fetch
ReportFetchIssued ==
    /\ Len(requests') = Len(requests) + 1
    /\ SubSeq(requests', 1, Len(requests)) = requests
    /\ requests'[Len(requests')].op = "getScanReport"

\* a step in which the promise callbacks of report fetch i run
ReportFetchSettles(i) ==
    /\ Answered(i)
    /\ requests[i].op = "getScanReport"
    /\ requests' = RemoveAt(requests, i)

\* the number of keys of the envelope of the report held, 0 when there is none
EnvelopeKeys ==
    IF report = Null THEN 0
    ELSE IF "report" \notin DOMAIN report[1] THEN 0
    ELSE Cardinality(DOMAIN report[1].report)

\* C22: when a report fetch of the open view settles, loading is cleared, and
\* the report is null if the fetch failed; once loading is cleared the view
\* shows the not-generated state exactly when the report is null or has no
\* envelope or an envelope without keys, and never for a report with one
\* remediation entry and an empty verification list.
C22_ReportLoad ==
    /\ [][\A i \in DOMAIN requests :
            (ReportFetchSettles(i) /\ requests[i].owner = "mounted") =>
               /\ reportLoading' = FALSE
               /\ requests[i].state = "rejected" => report' = Null]_vars
    /\ [](~reportLoading =>
            /\ (reportView = "report-empty-state") <=> (EnvelopeKeys = 0)
            /\ (reportView = "report-tabs") <=> (EnvelopeKeys > 0)
            /\ report = Some(ScanReport(2, EnvelopeFixOnly)) =>
                  reportView = "report-tabs")

\* the report of job 2, one remediation entry and no verification, is shown
C22_Witness ==
    /\ reportScanId = Some(2)
    /\ ~reportLoading
    /\ report = Some(ScanReport(2, EnvelopeFixOnly))
    /\ reportView = "report-tabs"
    /\ requests = <<>>

\* the fetch of the report of the job the open view is on has settled
ReportFetchDone ==
    /\ IsSome(reportScanId)
    /\ \A i \in DOMAIN requests :
          ~(/\ requests[i].op = "getScanReport"
            /\ requests[i].owner = "mounted"
            /\ requests[i].scanId = reportScanId)

\* C23: a report fetch is issued exactly by the steps that put the view on a
\* job id, and for that id; once the fetch for the job the view is on has
\* settled, the report does not change while the view stays on that job.
C23_SingleFetch ==
    [][/\ ReportFetchIssued <=>
             (reportScanId' # reportScanId /\ IsSome(reportScanId'))
       /\ ReportFetchIssued =>
             requests'[Len(requests')].scanId = reportScanId'
       /\ (ReportFetchDone /\ reportScanId' = reportScanId) => report' = report
      ]_vars

----------------------------------------------------------------------------
(* Report derivations *)

\* the section of the report held under key, Null when the report is null or
\* has no envelope or the envelope has no such key
Section(key) ==
    IF report = Null THEN Null
    ELSE IF "report" \notin DOMAIN report[1] THEN Null
    ELSE IF key \notin DOMAIN report[1].report THEN Null
    ELSE Some(report[1].report[key])

\* the render has run on the report held
Rendered == rendered # Null /\ rendered[1].of = report

\* C24: whatever sections the report has, and when it is null, the derivations
\* have these values: vulns is the scanner's list or empty, libs the scanner's
\* map or empty, the remediation and verification counts are the lengths of
\* the lists or 0, and verifiedCount is the number of verification entries
\* whose verified is true.
C24_DerivationsTotal ==
    /\ vulns = (IF Section("scanner") # Null
                   /\ "vulnerabilities" \in DOMAIN Section("scanner")[1]
                THEN Section("scanner")[1].vulnerabilities ELSE <<>>)
    /\ DOMAIN libs = (IF Section("scanner") # Null
                         /\ "detected_libraries" \in DOMAIN Section("scanner")[1]
                      THEN DOMAIN Section("scanner")[1].detected_libraries ELSE {})
    /\ tabCounts.remediation =
          (IF Section("remediation") # Null THEN Len(Section("remediation")[1]) ELSE 0)
    /\ tabCounts.verification =
          (IF Section("verification") # Null THEN Len(Section("verification")[1]) ELSE 0)
    /\ verifiedCount =
          (IF Section("verification") # Null
           THEN Cardinality({ k \in DOMAIN Section("verification")[1] :
                                 Section("verification")[1][k].verified })
           ELSE 0)
    /\ rendered # Null =>
          /\ rendered[1].out.verifiedCount \in 0..MaxChecks
          /\ DOMAIN rendered[1].out =
                {"vulns", "libs", "eco", "tabs", "verifiedCount", "pipeline",
                 "icons", "changes", "checks", "tests"}

\* a report with no scanner, no ecosystem and no remediation section, and two
\* verification entries of which one has passed, has been rendered
C24_Witness ==
    /\ Rendered
    /\ Section("scanner") = Null /\ Section("ecosystem") = Null
    /\ Section("remediation") = Null
    /\ rendered[1].out.tabs = [scanner |-> 0, remediation |-> 0, verification |-> 2]
    /\ rendered[1].out.verifiedCount = 1

\* C25: verifiedCount is at most the number of verification entries, and the
\* Verify step is completed exactly when the two are equal, also when both are
\* 0, and is the warning step exactly when verifiedCount is smaller.
C25_VerifyStep ==
    LET total == IF Section("verification") # Null
                 THEN Len(Section("verification")[1]) ELSE 0
        passed == IF Section("verification") # Null
                  THEN Cardinality({ k \in DOMAIN Section("verification")[1] :
                                        Section("verification")[1][k].verified })
                  ELSE 0
    IN  /\ verifiedCount <= total
        /\ pipelineFlow[4].name = "Verify"
        /\ (pipelineFlow[4].class = "completed") <=> (passed = total)
        /\ (pipelineFlow[4].class = "warning") <=> (passed < total)

\* one of two verification entries has passed and the Verify step was
\* rendered as the warning step
C25_Witness ==
    /\ Rendered
    /\ Len(verifications) = 2 /\ verifiedCount = 1
    /\ rendered[1].out.pipeline[4] = [name |-> "Verify", class |-> "warning"]

\* C26: the pipeline has the four steps Scan, Detect, Fix, Verify in this
\* order, and for every report that is not in the not-generated state the
\* first three are completed, whatever sections the report has.
C26_PipelineStages ==
    /\ [k \in DOMAIN pipelineFlow |-> pipelineFlow[k].name]
          = <<"Scan", "Detect", "Fix", "Verify">>
    /\ ~notGenerated =>
          \A k \in 1..3 : pipelineFlow[k].class = "completed"

\* a report whose envelope has the key error alone was rendered with the
\* three steps completed
C26_Witness ==
    /\ Rendered
    /\ ~notGenerated
    /\ Section("scanner") = Null /\ Section("ecosystem") = Null
    /\ Section("remediation") = Null /\ Section("verification") = Null
    /\ \A k \in 1..3 : rendered[1].out.pipeline[k].class = "completed"

----------------------------------------------------------------------------
(* Verification Log Parser *)

\* the positions of the line breaks of text, in increasing order, between 0
\* and the position after the last character
Breaks(text) ==
    LET at == { i \in DOMAIN text : text[i] = "\n" } \cup {0, Len(text) + 1}
    IN  CHOOSE b \in [1..Cardinality(at) -> at] :
            \A i, j \in 1..Cardinality(at) : i < j => b[i] < b[j]

LinesOf(text) ==
    [k \in 1..(Len(Breaks(text)) - 1) |->
        SubSeq(text, Breaks(text)[k] + 1, Breaks(text)[k + 1] - 1)]

\* name is what follows FAIL: or ERROR: and some whitespace at the start of
\* line: a word that the next character of the line does not continue
NamedFailure(line, name) ==
    \E prefix \in {<<"F", "A", "I", "L", ":">>,
                   <<"E", "R", "R", "O", "R", ":">>} :
    \E n \in 1..Len(line) :
       /\ Len(name) >= 1
       /\ Len(line) >= Len(prefix) + n + Len(name)
       /\ SubSeq(line, 1, Len(prefix)) = prefix
       /\ \A i \in 1..n : line[Len(prefix) + i] \in {" ", "\t", "\r", "\f"}
       /\ SubSeq(line, Len(prefix) + n + 1, Len(prefix) + n + Len(name)) = name
       /\ \A i \in DOMAIN name : name[i] \in WordChars
       /\ \/ Len(line) = Len(prefix) + n + Len(name)
          \/ line[Len(prefix) + n + Len(name) + 1] \notin WordChars

HasFailure(line) ==
    \E a \in 1..Len(line) : \E b \in a..Len(line) :
        NamedFailure(line, SubSeq(line, a, b))

\* the texts parsedTests is called with: v.error || '' of the entries
ParsedTexts == { errorText(verifications[i]) : i \in DOMAIN verifications }

\* C27: parsedTests returns one FAIL entry per line that starts with FAIL: or
\* ERROR:, whitespace and a word, named by the word and in the order of the
\* lines; when no line does and the text contains OK, the one pass entry; and
\* no entry otherwise.  The lines FAIL: test_foo (Case) and ERROR: test_bar
\* give the entries test_foo and test_bar.
C27_ParsedTests ==
    /\ \A text \in ParsedTexts :
          LET lines == LinesOf(text)
              hits == { k \in DOMAIN lines : HasFailure(lines[k]) }
              tests == parsedTests(text)
          IN  IF hits # {}
              THEN /\ Len(tests) = Cardinality(hits)
                   /\ \A i \in DOMAIN tests :
                         /\ tests[i].status = "FAIL"
                         /\ \E k \in hits :
                               /\ Cardinality({ j \in hits : j < k }) = i - 1
                               /\ NamedFailure(lines[k], tests[i].name)
              ELSE IF \E i \in 1..(Len(text) - 1) : SubSeq(text, i, i + 1) = <<"O", "K">>
              THEN /\ Len(tests) = 1
                   /\ tests[1].status = "PASS"
              ELSE tests = <<>>
    /\ LET tests == parsedTests(<<"F", "A", "I", "L", ":", " ", "t", "e", "s", "t", "_", "f", "o", "o", " ", "(", "C", "a", "s", "e", ")", "\n", "E", "R", "R", "O", "R", ":", " ", "t", "e", "s", "t", "_", "b", "a", "r">>)
       IN  /\ Len(tests) = 2
           /\ tests[1].name = <<"t", "e", "s", "t", "_", "f", "o", "o">>
           /\ tests[2].name = <<"t", "e", "s", "t", "_", "b", "a", "r">>

\* the text FAIL: test_foo (Case), line break, ERROR: test_bar has been parsed
\* into two entries
C27_Witness ==
    /\ Rendered
    /\ Len(rendered[1].out.tests) = 1
    /\ Len(rendered[1].out.tests[1]) = 2
    /\ rendered[1].out.tests[1][1].name = <<"t", "e", "s", "t", "_", "f", "o", "o">>
    /\ rendered[1].out.tests[1][2].name = <<"t", "e", "s", "t", "_", "b", "a", "r">>

----------------------------------------------------------------------------
(* Report view: severities and the pairing of patches with verifications *)

\* the severity of a finding, Null when it has none
SeverityOf(v) == IF "severity" \in DOMAIN v THEN v.severity ELSE Null

\* C29: severityIcon gives CRITICAL, HIGH, MEDIUM and LOW, written in any
\* case, four markers that differ from each other and from the default one,
\* and gives every other severity, the empty one and a missing one the
\* default marker.
C29_SeverityIcon ==
    /\ Cardinality({ Marker.CRITICAL, Marker.HIGH, Marker.MEDIUM, Marker.LOW,
                     Marker.default }) = 5
    /\ \A i \in DOMAIN vulns :
          LET sev == SeverityOf(vulns[i])
              is(name) == sev # Null /\ EqIgnoreCase(sev[1], name)
          IN  severityIcon(sev) =
                 IF is(S_CRITICAL) THEN Marker.CRITICAL
                 ELSE IF is(S_HIGH) THEN Marker.HIGH
                 ELSE IF is(S_MEDIUM) THEN Marker.MEDIUM
                 ELSE IF is(S_LOW) THEN Marker.LOW
                 ELSE Marker.default

\* a finding whose severity is written critical and one that has no severity
\* have been rendered
C29_Witness ==
    /\ Rendered
    /\ Len(vulns) = 2
    /\ SeverityOf(vulns[1]) = Some(toLowerCase(S_CRITICAL))
    /\ SeverityOf(vulns[2]) = Null
    /\ rendered[1].out.icons = <<Marker.CRITICAL, Marker.default>>

\* C30: a patch is shown with the status of the first verification entry that
\* has exactly its path, and with no status when no verification entry has
\* its path; every verification entry is counted and listed, whether or not a
\* patch has its path.
C30_PairByPath ==
    /\ \A i \in DOMAIN remediations :
          LET same == { k \in DOMAIN verifications :
                           verifications[k].path = remediations[i].path }
          IN  /\ changeCards[i].path = remediations[i].path
              /\ same = {} => changeCards[i].status = Null
              /\ same # {} =>
                    \E k \in same :
                       /\ \A j \in same : k <= j
                       /\ changeCards[i].status =
                             Some(IF verifications[k].verified THEN "pass" ELSE "fail")
    /\ Len(changeCards) = Len(remediations)
    /\ tabCounts.verification = Len(verifications)
    /\ Len(verifyCards) = Len(verifications)
    /\ \A k \in DOMAIN verifications :
          verifyCards[k].path = verifications[k].path

\* the patches a.py and b.py were rendered next to the verification entries
\* A.py, passed, and a.py, failed: a.py is shown failed, b.py without status,
\* and both entries are listed
C30_Witness ==
    /\ Rendered
    /\ Len(remediations) = 2
    /\ rendered[1].out.changes =
          << [path |-> "a.py", status |-> Some("fail")],
             [path |-> "b.py", status |-> Null] >>
    /\ rendered[1].out.checks =
          << [path |-> "A.py", class |-> "pass"],
             [path |-> "a.py", class |-> "fail"] >>

----------------------------------------------------------------------------
(* Cross-cutting behaviour of the pollers *)

\* C31: fetches of the job-list poller overlap freely and are not sequenced.
\* A tick that is due issues its fetch whatever is in flight; the continuation
\* of every answered job-list fetch can run at once, whatever other fetch is in
\* flight and whatever the order of the calls; and each successful one leaves
\* its list in the table, so the table holds the list of the fetch whose
\* continuation ran last, also when that fetch was called first.
C31_OverlapLastWins ==
    /\ [][/\ \A i \in DOMAIN requests :
                (ScansFetchSettles(i) /\ requests[i].state = "fulfilled")
                   => scans' = requests[i].data
          /\ (IsSome(scanInterval) /\ IsSome(scanInterval')
                 /\ scanInterval' # scanInterval)
                => requests' = Append(requests, Request("getScans", TRUE, Null))
         ]_vars
    /\ [](\A i \in DOMAIN requests :
             (Answered(i) /\ requests[i].op = "getScans")
                => ENABLED FetchScansSettled(i))
    /\ []((Due(scanInterval) /\ Len(requests) < MaxInflight) => ENABLED PollTick)

\* Two fetches of the poller, called at two successive ticks, are in flight
\* together and both answered, with different lists: either continuation may
\* run last.
C31_Witness ==
    /\ mounted = "mounted"
    /\ clock = 2 * PollMs
    /\ scanInterval = Some(3 * PollMs)
    /\ Len(requests) = 2
    /\ \A i \in 1..2 :
          /\ requests[i].op = "getScans"
          /\ requests[i].silent
          /\ requests[i].state = "fulfilled"
    /\ requests[1].data = <<JobQueued, JobPending>>
    /\ requests[2].data = <<JobFinished>>
    /\ scans = <<>>

\* a step in which a job-list fetch is answered with a failure
ScansFetchFails ==
    \E i \in DOMAIN requests :
       /\ requests[i].op = "getScans"
       /\ requests[i].state = "pending"
       /\ requests' = [requests EXCEPT ![i].state = "rejected"]

\* a step in which the continuation of a successful job-list fetch puts its
\* list in the table
TableRefreshed ==
    \E i \in DOMAIN requests :
       /\ ScansFetchSettles(i)
       /\ requests[i].state = "fulfilled"
       /\ scans' = requests[i].data

\* C32: while the view is mounted the poll goes on for ever at its fixed
\* period: each tick re-arms the timer one period after its due time and
\* issues one silent fetch, whatever the table, the error flag and the answers
\* in flight; ticks never cease; and unless job-list fetches keep failing for
\* ever, the table is again and again replaced by a list the server sent, so
\* it ends up holding a list sent after the last failure.
C32_RetryForever ==
    /\ [][(mounted = "mounted" /\ mounted' = "mounted" /\ clock' = clock
             /\ scanInterval' # scanInterval)
            => /\ scanInterval' = Some(Val(scanInterval) + PollMs)
               /\ requests' = Append(requests, Request("getScans", TRUE, Null))
         ]_vars
    /\ []<><<requests' = Append(requests, Request("getScans", TRUE, Null))>>_vars
    /\ ([]<><<ScansFetchFails>>_vars \/ []<><<TableRefreshed>>_vars)

\* The first fetch failed, a later fetch of the poll succeeded, and the poll
\* has issued a further fetch, which failed as well.
C32_Witness ==
    /\ mounted = "mounted"
    /\ error = "Failed to fetch scans"
    /\ scans = <<JobFinished>>
    /\ Len(requests) = 1
    /\ requests[1].op = "getScans"
    /\ requests[1].silent
    /\ requests[1].state = "rejected"

\* C33: each piece of state has one owner.  A clock tick changes the time
\* shown and nothing else; no step of a job-list fetch (its call from the poll,
\* the Refresh button or a cancellation, and its continuation) changes the
\* watched job id or the log list; no step of a log fetch changes the job
\* table, the loading flag or the error flag; the watched job id changes only
\* when a job is watched (openTokenModal) or unwatched (closeModal); the job
\* table changes only in the continuation of a job-list fetch, and the log
\* list only in the continuation of a log fetch or at unwatch.
C33_Owners ==
    [][/\ clockTimer' # clockTimer
            => UNCHANGED <<scans, loading, error, selectedScanId, scanLogs,
                           logsLoading, reportScanId, report, reportLoading,
                           mounted, clock, scanInterval, requests, alert,
                           logIntervals, rendered>>
       /\ ((\E silent \in BOOLEAN : ScansFetchIssued(silent))
              \/ (\E i \in DOMAIN requests : ScansFetchSettles(i)))
            => UNCHANGED <<selectedScanId, scanLogs, logsLoading>>
       /\ ((\E silent \in BOOLEAN : LogFetchIssued(silent))
              \/ (\E i \in DOMAIN requests, silent \in BOOLEAN :
                      LogFetchSettles(i, silent)))
            => UNCHANGED <<scans, loading, error>>
       /\ selectedScanId' # selectedScanId
            => \/ /\ LogFetchIssued(FALSE)
                  /\ selectedScanId' = requests'[Len(requests')].scanId
               \/ /\ selectedScanId' = Null
                  /\ scanLogs' = <<>>
                  /\ requests' = requests
       /\ scans' # scans => \E i \in DOMAIN requests : ScansFetchSettles(i)
       /\ scanLogs' # scanLogs
            => \/ \E i \in DOMAIN requests, silent \in BOOLEAN :
                     LogFetchSettles(i, silent)
               \/ (IsSome(selectedScanId) /\ selectedScanId' = Null)
      ]_vars

\* Job 2 is watched and its logs are shown, the clock has ticked, and a
\* periodic log fetch and a job-list fetch of the poll are in flight.
C33_Witness ==
    /\ selectedScanId = Some(2)
    /\ scanLogs = <<LogScan>>
    /\ currentTime = PollMs
    /\ Len(requests) = 2
    /\ requests[1].op = "getScanLogs"
    /\ requests[1].silent
    /\ requests[2].op = "getScans"
    /\ requests[2].silent

----------------------------------------------------------------------------
(* Log fetches in flight when the watched job changes *)

\* C34: whenever the token table of a watched job is shown (a job is watched,
\* its logs are not loading and the log list is not empty), the log list is
\* one the server sent for the watched job: the answer to a log fetch issued
\* for a job watched before is never shown for the job watched now.
C34_LogsOfWatched ==
    TokenTableShown => scanLogs \in ServerLogs(Val(selectedScanId))

\* C35: whenever no job is watched the log list is empty: closeModal empties
\* it and no log fetch that was in flight then fills it again.
C35_NoLogsUnwatched ==
    selectedScanId = Null => scanLogs = <<>>

\* the first log fetch of the job watched now is in flight
InitialFetchInFlight ==
    /\ IsSome(selectedScanId)
    /\ \E i \in DOMAIN requests :
          /\ requests[i].op = "getScanLogs"
          /\ ~requests[i].silent
          /\ requests[i].scanId = selectedScanId

\* C36: openTokenModal sets logsLoading when it issues its fetch and clears it
\* when that fetch settles, fulfilled or rejected; no step of a periodic log
\* fetch changes logsLoading; and logsLoading is true for as long as the first
\* fetch of the job watched now is in flight, also when another job was
\* watched just before.
C36_LogsLoading ==
    /\ [][/\ LogFetchIssued(FALSE) => logsLoading'
          /\ (\E i \in DOMAIN requests : LogFetchSettles(i, FALSE)) => ~logsLoading'
          /\ (LogFetchIssued(TRUE)
                \/ \E i \in DOMAIN requests : LogFetchSettles(i, TRUE))
               => logsLoading' = logsLoading
         ]_vars
    /\ [](InitialFetchInFlight => logsLoading)

----------------------------------------------------------------------------
(* The error flag across refreshes *)

\* C37: the error flag is set only by the failure of a non-silent refresh and
\* is cleared only by the start of a non-silent refresh; no step of a silent
\* refresh, successful or not, changes it, so a silent refresh that succeeds
\* while the flag is set leaves the flag set over the table it has just
\* replaced.
C37_ErrorSticks ==
    [][/\ (error # NULL /\ error' = NULL) => ScansFetchIssued(FALSE)
       /\ (error' # NULL /\ error' # error)
            => \E i \in DOMAIN requests :
                  /\ ScansFetchSettles(i)
                  /\ ~requests[i].silent
                  /\ requests[i].state = "rejected"
       /\ ScansFetchIssued(TRUE) => error' = error
       /\ \A i \in DOMAIN requests :
             (ScansFetchSettles(i) /\ requests[i].silent)
                => /\ error' = error
                   /\ requests[i].state = "fulfilled" => scans' = requests[i].data
      ]_vars

\* The error flag is set, no non-silent refresh is running, and a silent
\* refresh has been answered with a list that is not the one in the table.
C37_Witness ==
    /\ mounted = "mounted"
    /\ error = "Failed to fetch scans"
    /\ ~loading
    /\ scans = <<>>
    /\ requests = << [Request("getScans", TRUE, Null) EXCEPT
                        !.state = "fulfilled", !.data = <<JobFinished>>] >>

----------------------------------------------------------------------------
(* What the token ledger reads of a phase log *)

\* a phase log with the step and the two counts of log and nothing else of it
Bare(log) ==
    [step |-> log.step, tokens_input |-> log.tokens_input,
     tokens_output |-> log.tokens_output, tokens_total |-> 0,
     model |-> "", message |-> "", timestamp |-> Stamp(0, 0, 0, 0, 1)]

RECURSIVE SumOver(_, _)
SumOver(n, field) ==
    IF n = 0 THEN 0
    ELSE SumOver(n - 1, field)
         + (IF field = "input" THEN getInput(Bare(scanLogs[n]))
            ELSE IF field = "output" THEN getOutput(Bare(scanLogs[n]))
            ELSE getTotal(Bare(scanLogs[n])))

\* C38: the effective input, output and total of a phase log, its row and the
\* footer sums are those of the log reduced to its step, tokens_input and
\* tokens_output: another tokens_total (or model, message, timestamp) changes
\* none of them; the effective input is the same whatever tokens_output is,
\* and the effective output the same whatever tokens_input is.
C38_LedgerInputs ==
    /\ \A k \in DOMAIN scanLogs :
          LET log == scanLogs[k] IN
          /\ getInput(log) = getInput(Bare(log))
          /\ getOutput(log) = getOutput(Bare(log))
          /\ getTotal(log) = getTotal(Bare(log))
          /\ tokenRow(log) = tokenRow(Bare(log))
          /\ \A t \in {0, log.tokens_total + 1, getTotal(log)} :
                LET other == [log EXCEPT !.tokens_total = t] IN
                /\ getInput(other) = getInput(log)
                /\ getOutput(other) = getOutput(log)
                /\ getTotal(other) = getTotal(log)
                /\ tokenRow(other) = tokenRow(log)
          /\ \A o \in 0..MaxTokens :
                getInput([log EXCEPT !.tokens_output = o]) = getInput(log)
          /\ \A i \in 0..MaxTokens :
                getOutput([log EXCEPT !.tokens_input = i]) = getOutput(log)
    /\ footerInput = SumOver(Len(scanLogs), "input")
    /\ footerOutput = SumOver(Len(scanLogs), "output")
    /\ footerTotal = SumOver(Len(scanLogs), "total")

\* A Remediation log with a reported input and an estimated output, and an
\* Ecosystem Detection log with an estimated input and a reported output;
\* the server's tokens_total of each is 1, the ledger shows 601 and 151.
C38_Witness ==
    /\ TokenTableShown
    /\ Len(scanLogs) = 2
    /\ scanLogs[1] = ScanLog("Remediation", 1, 0, 1)
    /\ scanLogs[2] = ScanLog("Ecosystem Detection", 0, 1, 1)
    /\ getInput(scanLogs[1]) = 1 /\ getOutput(scanLogs[1]) = 600
    /\ getInput(scanLogs[2]) = 150 /\ getOutput(scanLogs[2]) = 1
    /\ footerTotal = 752

----------------------------------------------------------------------------
(* The entries of parsedTests, taken together *)

\* C39: what parsedTests returns is never a mix: it is empty, or the one PASS
\* entry, or one or more entries that all have the status FAIL; a line that
\* starts with ERROR: gives a FAIL entry like one that starts with FAIL:; and
\* when some line of the text matched, every entry is a FAIL entry, whether or
\* not the text contains OK.
C39_NoMixedEntries ==
    Rendered =>
       \A i \in DOMAIN rendered[1].out.tests :
          LET tests == rendered[1].out.tests[i]
              lines == LinesOf(errorText(verifications[i]))
          IN  /\ \/ tests = <<>>
                 \/ Len(tests) = 1 /\ tests[1].status = "PASS"
                 \/ Len(tests) >= 1 /\ \A k \in DOMAIN tests : tests[k].status = "FAIL"
              /\ (\E k \in DOMAIN lines : HasFailure(lines[k]))
                    => /\ Len(tests) >= 1
                       /\ \A k \in DOMAIN tests : tests[k].status = "FAIL"

\* the text ERROR: test_bar, line break, OK has been parsed into the one FAIL
\* entry test_bar
C39_Witness ==
    /\ Rendered
    /\ Len(verifications) = 1
    /\ errorText(verifications[1]) =
          <<"E", "R", "R", "O", "R", ":", " ", "t", "e", "s", "t", "_", "b", "a", "r",
            "\n", "O", "K">>
    /\ rendered[1].out.tests[1] =
          << [name |-> <<"t", "e", "s", "t", "_", "b", "a", "r">>, status |-> "FAIL"] >>

====
